---- MODULE Spec2Model ----
(***************************************************************************)
(* Model of the todo-api task service (internal/service/task), of the     *)
(* task domain type (internal/domain/task), of the auth service, of the    *)
(* auth middleware and of the handlers behind the routes.                  *)
(*                                                                         *)
(* A string is a sequence of Unicode code points; Go's len(string) is the  *)
(* length of its UTF-8 encoding, so ByteLen sums the encoded widths.       *)
(* A nil pointer / absent optional is the empty sequence None, a present   *)
(* one is the one-element sequence Some(x).  A nil error is "".            *)
(* uuid.New() is modelled as a fresh identifier drawn from the counter     *)
(* nextID (random 122-bit identifiers are assumed not to collide).         *)
(* time.Now() is a monotone clock whose resolution is fixed for a run:     *)
(* every reading is the previous reading plus tick, where tick is 0 (a     *)
(* coarse clock: all the readings of the run agree) or 1 (each reading is  *)
(* later than the one before).                                             *)
(***************************************************************************)
EXTENDS Integers, Sequences, FiniteSets, TLC

VARIABLES
    tasks,    \* service.tasks : map[uuid.UUID]*task.Task
    nextID,   \* next identifier uuid.New() hands out
    now,      \* last reading of time.Now()
    tick,     \* step of the clock between two readings of time.Now()
    deleted,  \* history: the identifiers DeleteTask has removed
    writes,   \* history: number of successful mutating calls served
    last,     \* history: the call served last, its request and its error
    calls     \* the call each goroutine is inside, and where it stands in it

vars == <<tasks, nextID, now, tick, deleted, writes, last, calls>>

---------------------------------------------------------------------------
(* Bounds of the model *)

\* Successful CreateTask / UpdateTask / DeleteTask calls explored per run.
MaxWrites == 2

\* calls each goroutine makes when requests are served concurrently
MaxCalls == 1

\* bound on the successful mutating calls of a behaviour of SpecBoundary
MaxLongWrites == 1

\* bound on the successful mutating calls of a behaviour of SpecList
MaxListWrites == 3

\* successful writes through the routes in a run of SpecServe
MaxServedWrites == 1

\* The width of an int in bits.  Go's int has 64; the arithmetic of the
\* model is done in machine words of this smaller width, which wrap in the
\* same way.
IntBits == 16

---------------------------------------------------------------------------
(* Generic helpers *)

None == <<>>
Some(x) == <<x>>

\* n copies of the code point c
Rep(c, n) == SubSeq([i \in 1..n |-> c], 1, n)

\* the largest int, and an integer reduced to the int it wraps to
MaxInt == 2^(IntBits - 1) - 1

WrapInt(n) == ((n + 2^(IntBits - 1)) % 2^IntBits) - 2^(IntBits - 1)

\* the resolutions of the clock explored
ClockSteps == {0, 1}

---------------------------------------------------------------------------
(* The seeded users of the auth service *)

User1 == "3484ec33-20f9-4993-a25f-f49f6f5dbe54"   \* john.doe@example.com
User2 == "550e8400-e29b-41d4-a716-446655440002"   \* jane.smith@example.com
User3 == "550e8400-e29b-41d4-a716-446655440003"   \* mike.wilson@example.com

Users == {User1, User2, User3}

---------------------------------------------------------------------------
(* internal/domain/task/task.go *)

StatusPending    == "pending"
StatusInProgress == "in_progress"
StatusCompleted  == "completed"
StatusCancelled  == "cancelled"

\* the limit both Validate methods compare len(title) with
MaxTitleLen == 200

\* unicode.IsSpace, as used by strings.TrimSpace
IsSpace(c) ==
    \/ c \in {9, 10, 11, 12, 13, 32, 133, 160, 5760}
    \/ c \in 8192..8202
    \/ c \in {8232, 8233, 8239, 8287, 12288}

\* strings.TrimSpace: the string without its leading and trailing spaces
TrimSpace(s) ==
    LET n == Len(s) IN
    IF \A i \in 1..n : IsSpace(s[i]) THEN <<>>
    ELSE LET lead  == CHOOSE k \in 0..(n - 1) :
                        /\ ~IsSpace(s[k + 1])
                        /\ \A j \in 1..k : IsSpace(s[j])
             trail == CHOOSE k \in 0..(n - 1) :
                        /\ ~IsSpace(s[n - k])
                        /\ \A j \in (n - k + 1)..n : IsSpace(s[j])
         IN  SubSeq(s, lead + 1, n - trail)

\* bytes of the UTF-8 encoding of one code point
UTF8Width(c) ==
    IF c < 128 THEN 1
    ELSE IF c < 2048 THEN 2
    ELSE IF c < 65536 THEN 3
    ELSE 4

\* Go's len(s) of a string: the sum of the widths of its code points
ByteLen(s) ==
    LET wide == { i \in 1..Len(s) : UTF8Width(s[i]) >= 2 } IN
    Len(s) + Cardinality(wide)
           + Cardinality({ i \in wide : UTF8Width(s[i]) >= 3 })
           + Cardinality({ i \in wide : UTF8Width(s[i]) >= 4 })

\* isValidStatus
isValidStatus(status) ==
    status \in {StatusPending, StatusInProgress, StatusCompleted, StatusCancelled}

\* NewTask; id is the value of uuid.New(), t1 and t2 the two readings of
\* time.Now() in the order the struct literal evaluates them.
NewTask(id, title, userID, t1, t2) ==
    [ id         |-> id,
      title      |-> title,
      status     |-> StatusPending,
      user_id    |-> userID,
      created_at |-> t1,
      updated_at |-> t2 ]

\* Validate with the length bound off by one
ValidateCreateRequestOffByOne(req) ==
    IF TrimSpace(req.title) = <<>> THEN "title is required"
    ELSE IF ByteLen(req.title) >= MaxTitleLen
         THEN "title must be at most 200 characters"
    ELSE ""

\* (*CreateTaskRequest).Validate ("ValidateCreateRequest")
ValidateCreateRequest(req) ==
    IF TrimSpace(req.title) = <<>> THEN "title is required"
    ELSE IF ByteLen(req.title) > MaxTitleLen
         THEN "title must be at most 200 characters"
    ELSE ""

\* (*UpdateTaskRequest).Validate ("ValidateUpdateRequest")
\* UpdateTaskRequest.Validate that checks the status only
ValidateUpdateRequestStatusOnly(req) ==
    IF req.status # None /\ ~isValidStatus(req.status[1])
        THEN "invalid status"
    ELSE ""

ValidateUpdateRequest(req) ==
    IF req.title # None /\ TrimSpace(req.title[1]) = <<>>
        THEN "title cannot be empty"
    ELSE IF req.title # None /\ ByteLen(req.title[1]) > MaxTitleLen
        THEN "title must be at most 200 characters"
    ELSE IF req.status # None /\ ~isValidStatus(req.status[1])
        THEN "invalid status"
    ELSE ""

\* Update with the creation time overwritten as well
UpdateTouchesCreatedAt(task, req, t) ==
    [ task EXCEPT
        !.title      = IF req.title # None THEN req.title[1] ELSE @,
        !.status     = IF req.status # None THEN req.status[1] ELSE @,
        !.created_at = t,
        !.updated_at = t ]

\* Update that assigns the zero value of a field the request leaves out
UpdateAssignsAbsentFields(task, req, t) ==
    [ task EXCEPT
        !.title      = IF req.title # None THEN req.title[1] ELSE <<>>,
        !.status     = IF req.status # None THEN req.status[1] ELSE "",
        !.updated_at = t ]

\* (*Task).Update; t is the reading of time.Now()
Update(task, req, t) ==
    [ task EXCEPT
        !.title      = IF req.title # None THEN req.title[1] ELSE @,
        !.status     = IF req.status # None THEN req.status[1] ELSE @,
        !.updated_at = t ]

---------------------------------------------------------------------------
(* internal/service/task/task_service.go *)

SeedTitle1 == <<67, 111, 109, 112, 108, 101, 116, 101, 32, 112, 114, 111,
                106, 101, 99, 116, 32, 100, 111, 99, 117, 109, 101, 110,
                116, 97, 116, 105, 111, 110>>  \* Complete project documentation
SeedTitle2 == <<82, 101, 118, 105, 101, 119, 32, 99, 111, 100, 101, 32, 99,
                104, 97, 110, 103, 101, 115>>  \* Review code changes
SeedTitle3 == <<80, 108, 97, 110, 32, 116, 101, 97, 109, 32, 109, 101, 101,
                116, 105, 110, 103>>           \* Plan team meeting
SeedTitle4 == <<85, 112, 100, 97, 116, 101, 32, 115, 121, 115, 116, 101,
                109, 32, 99, 111, 110, 102, 105, 103, 117, 114, 97, 116,
                105, 111, 110>>                \* Update system configuration

\* NewService: four NewTask calls, two of them followed by a status
\* assignment.  d is the step of the clock between two readings (0 on a
\* coarse clock, when all the readings agree).
NewService(d) ==
    LET task1 == [NewTask(1, SeedTitle1, User1, d, 2 * d)
                    EXCEPT !.status = StatusInProgress]
        task2 == NewTask(2, SeedTitle2, User1, 3 * d, 4 * d)
        task3 == [NewTask(3, SeedTitle3, User2, 5 * d, 6 * d)
                    EXCEPT !.status = StatusCompleted]
        task4 == NewTask(4, SeedTitle4, User2, 7 * d, 8 * d)
    IN  (1 :> task1) @@ (2 :> task2) @@ (3 :> task3) @@ (4 :> task4)

\* uuid.New() in NewTask: an identifier no task ever had
NewUUID == nextID

\* What CreateTask returns and the map it leaves, for the identifier id
\* that uuid.New() yields and the readings t1, t2 of time.Now().
CreateTaskCall(req, userID, id, t1, t2) ==
    LET err == ValidateCreateRequest(req) IN
    IF err # ""
    THEN [err |-> err, task |-> None, tasks |-> tasks]
    ELSE LET newTask == NewTask(id, req.title, userID, t1, t2)
         IN  [ err   |-> "",
               task  |-> Some(newTask),
               tasks |-> (newTask.id :> newTask) @@ tasks ]

\* GetTaskByID without the ownership check
GetTaskByIDNoOwnerCheck(id, userID) ==
    IF id \notin DOMAIN tasks
    THEN [err |-> "task not found", task |-> None]
    ELSE [err |-> "", task |-> Some(tasks[id])]

\* What GetTaskByID returns.
GetTaskByIDCall(id, userID) ==
    IF id \notin DOMAIN tasks
    THEN [err |-> "task not found", task |-> None]
    ELSE IF tasks[id].user_id # userID
    THEN [err |-> "access denied", task |-> None]
    ELSE [err |-> "", task |-> Some(tasks[id])]

\* UpdateTask that checks the fields one by one as it applies them
UpdateTaskValidatesAsItGoes(id, req, userID, t) ==
    IF id \notin DOMAIN tasks
    THEN [err |-> "task not found", task |-> None, tasks |-> tasks]
    ELSE IF tasks[id].user_id # userID
    THEN [err |-> "access denied", task |-> None, tasks |-> tasks]
    ELSE IF req.title # None /\ TrimSpace(req.title[1]) = <<>>
    THEN [err |-> "title cannot be empty", task |-> None, tasks |-> tasks]
    ELSE IF req.title # None /\ ByteLen(req.title[1]) > MaxTitleLen
    THEN [ err |-> "title must be at most 200 characters", task |-> None,
           tasks |-> tasks ]
    ELSE LET titled == [tasks EXCEPT ![id].title =
                           IF req.title # None THEN req.title[1] ELSE @]
         IN  IF req.status # None /\ ~isValidStatus(req.status[1])
             THEN [err |-> "invalid status", task |-> None, tasks |-> titled]
             ELSE LET updated == Update(tasks[id], req, t)
                  IN  [ err   |-> "",
                        task  |-> Some(updated),
                        tasks |-> [tasks EXCEPT ![id] = updated] ]

\* UpdateTask without the ownership check
UpdateTaskNoOwnerCheck(id, req, userID, t) ==
    LET verr == ValidateUpdateRequest(req) IN
    IF verr # ""
    THEN [err |-> verr, task |-> None, tasks |-> tasks]
    ELSE IF id \notin DOMAIN tasks
    THEN [err |-> "task not found", task |-> None, tasks |-> tasks]
    ELSE LET updated == Update(tasks[id], req, t)
         IN  [ err   |-> "",
               task  |-> Some(updated),
               tasks |-> [tasks EXCEPT ![id] = updated] ]

\* What UpdateTask returns and the map it leaves, for the reading t of
\* time.Now() in Task.Update.
UpdateTaskCall(id, req, userID, t) ==
    LET verr == ValidateUpdateRequest(req) IN
    IF verr # ""
    THEN [err |-> verr, task |-> None, tasks |-> tasks]
    ELSE IF id \notin DOMAIN tasks
    THEN [err |-> "task not found", task |-> None, tasks |-> tasks]
    ELSE IF tasks[id].user_id # userID
    THEN [err |-> "access denied", task |-> None, tasks |-> tasks]
    ELSE LET updated == Update(tasks[id], req, t)
         IN  [ err   |-> "",
               task  |-> Some(updated),
               tasks |-> [tasks EXCEPT ![id] = updated] ]

\* DeleteTask without the ownership check
DeleteTaskNoOwnerCheck(id, userID) ==
    IF id \notin DOMAIN tasks
    THEN [err |-> "task not found", tasks |-> tasks]
    ELSE [err |-> "", tasks |-> [k \in DOMAIN tasks \ {id} |-> tasks[k]]]

\* DeleteTask that reports success and leaves the task in the map
DeleteTaskKeepsTask(id, userID) ==
    IF id \notin DOMAIN tasks
    THEN [err |-> "task not found", tasks |-> tasks]
    ELSE IF tasks[id].user_id # userID
    THEN [err |-> "access denied", tasks |-> tasks]
    ELSE [err |-> "", tasks |-> tasks]

\* What DeleteTask returns and the map it leaves.
DeleteTaskCall(id, userID) ==
    IF id \notin DOMAIN tasks
    THEN [err |-> "task not found", tasks |-> tasks]
    ELSE IF tasks[id].user_id # userID
    THEN [err |-> "access denied", tasks |-> tasks]
    ELSE [err |-> "", tasks |-> [k \in DOMAIN tasks \ {id} |-> tasks[k]]]

\* strings.ToLower on one code point (ASCII and Latin-1 upper-case letters)
LowerRune(c) ==
    IF c \in 65..90 THEN c + 32
    ELSE IF c \in 192..222 /\ c # 215 THEN c + 32
    ELSE c

\* strings.ToLower
ToLower(s) == [i \in 1..Len(s) |-> LowerRune(s[i])]

\* strings.Contains
Contains(s, substr) ==
    \E i \in 0..(Len(s) - Len(substr)) :
        SubSeq(s, i + 1, i + Len(substr)) = substr

\* Go's < on strings: lexicographic on the bytes, which for UTF-8 is
\* lexicographic on the code points
StringLess(a, b) ==
    LET n     == IF Len(a) < Len(b) THEN Len(a) ELSE Len(b)
        diffs == { i \in 1..n : a[i] # b[i] }
    IN  IF diffs = {} THEN Len(a) < Len(b)
        ELSE LET k == CHOOSE i \in diffs : \A j \in diffs : i <= j
             IN  a[k] < b[k]

\* Go's / on integers truncates toward zero
GoDiv(a, b) ==
    IF (a >= 0) = (b > 0) THEN a \div b
    ELSE -((-a) \div b)

\* applyFilters with the search compared case by case
applyFiltersCaseSensitive(ts, filter) ==
    IF filter = None THEN ts
    ELSE { t \in ts :
            /\ ~(filter[1].status # None /\ t.status # filter[1].status[1])
            /\ ~(/\ filter[1].search # <<>>
                 /\ ~Contains(t.title, filter[1].search)) }

\* applyFilters, on the set of the tasks scanned
applyFilters(ts, filter) ==
    IF filter = None THEN ts
    ELSE { t \in ts :
            /\ ~(filter[1].status # None /\ t.status # filter[1].status[1])
            /\ ~(/\ filter[1].search # <<>>
                 /\ ~Contains(ToLower(t.title), ToLower(filter[1].search))) }

\* statusOrder[status] of applySorting: a Go map lookup, 0 on a missing key
statusOrder(status) ==
    CASE status = StatusPending    -> 1
      [] status = StatusInProgress -> 2
      [] status = StatusCompleted  -> 3
      [] status = StatusCancelled  -> 4
      [] OTHER                     -> 0

\* the sort options with ascending as the default order
resolveSortAscending(sortOptions) ==
    IF sortOptions = None
    THEN [field |-> "created_at", order |-> "asc"]
    ELSE sortOptions[1]

\* the sort options applySorting works with
resolveSort(sortOptions) ==
    IF sortOptions = None
    THEN [field |-> "created_at", order |-> "desc"]
    ELSE sortOptions[1]

\* the less function with the status ranks compared the wrong way round
lessStatusReversed(a, b, sortOptions) ==
    LET so == resolveSort(sortOptions) IN
    CASE so.field = "title" ->
            IF so.order = "asc" THEN StringLess(a.title, b.title)
            ELSE StringLess(b.title, a.title)
      [] so.field = "status" ->
            IF so.order = "asc" THEN statusOrder(a.status) > statusOrder(b.status)
            ELSE statusOrder(a.status) < statusOrder(b.status)
      [] so.field = "updated_at" ->
            IF so.order = "asc" THEN a.updated_at < b.updated_at
            ELSE a.updated_at > b.updated_at
      [] OTHER ->
            IF so.order = "asc" THEN a.created_at < b.created_at
            ELSE a.created_at > b.created_at

\* the less function applySorting hands to sort.Slice
less(a, b, sortOptions) ==
    LET so == resolveSort(sortOptions) IN
    CASE so.field = "title" ->
            IF so.order = "asc" THEN StringLess(a.title, b.title)
            ELSE StringLess(b.title, a.title)
      [] so.field = "status" ->
            IF so.order = "asc" THEN statusOrder(a.status) < statusOrder(b.status)
            ELSE statusOrder(a.status) > statusOrder(b.status)
      [] so.field = "updated_at" ->
            IF so.order = "asc" THEN a.updated_at < b.updated_at
            ELSE a.updated_at > b.updated_at
      [] OTHER ->
            IF so.order = "asc" THEN a.created_at < b.created_at
            ELSE a.created_at > b.created_at

\* applySorting: the map is scanned in an unspecified order and sort.Slice
\* is not stable, so the outcome is any arrangement of the tasks in which
\* no element is less than an earlier one.  The set of these outcomes.
RECURSIVE applySorting(_, _)
applySorting(ts, sortOptions) ==
    IF ts = {} THEN {<<>>}
    ELSE UNION { { <<m>> \o rest : rest \in applySorting(ts \ {m}, sortOptions) } :
                 m \in { x \in ts : \A y \in ts : ~less(y, x, sortOptions) } }

\* the scan of ListTasks without the comparison of UserID
userTasksOfAnyone(userID) ==
    { tasks[id] : id \in DOMAIN tasks }

\* the scan of ListTasks: the tasks of the map whose UserID is userID
userTasks(userID) ==
    { tasks[id] : id \in { k \in DOMAIN tasks : tasks[k].user_id = userID } }

\* totalPages without the rounding up
totalPagesRoundedDown(total, limit) == GoDiv(total, limit)

\* totalPages of ListTasks, for limit # 0
totalPages(total, limit) == GoDiv(total + limit - 1, limit)

\* the page window with the first page numbered 0
paginateFromPageZero(sortedTasks, page, limit) ==
    LET total == Len(sortedTasks)
        start == page * limit
        end   == IF start + limit > total THEN total ELSE start + limit
    IN  IF start >= total
        THEN [err |-> "", items |-> <<>>, items_nil |-> FALSE]
        ELSE [ err       |-> "",
               items     |-> SubSeq(sortedTasks, start + 1, end),
               items_nil |-> FALSE ]

\* the page window that answers a page past the end with a nil slice
paginateNilPastEnd(sortedTasks, page, limit) ==
    LET total == Len(sortedTasks)
        start == (page - 1) * limit
        end   == IF start + limit > total THEN total ELSE start + limit
    IN  IF start >= total
        THEN [err |-> "", items |-> <<>>, items_nil |-> TRUE]
        ELSE [ err       |-> "",
               items     |-> SubSeq(sortedTasks, start + 1, end),
               items_nil |-> FALSE ]

\* the page window of ListTasks: start, end, the empty slice returned when
\* start is past the end, and sortedTasks[start:end], which panics on
\* bounds out of range; items_nil tells a nil slice from an empty one
paginate(sortedTasks, page, limit) ==
    LET total == Len(sortedTasks)
        start == WrapInt((page - 1) * limit)
        end   == IF WrapInt(start + limit) > total THEN total
                 ELSE WrapInt(start + limit)
    IN  IF start >= total
        THEN [err |-> "", items |-> <<>>, items_nil |-> FALSE]
        ELSE IF start < 0 \/ end < start
        THEN [ err |-> "panic: slice bounds out of range",
               items |-> <<>>, items_nil |-> TRUE ]
        ELSE [ err       |-> "",
               items     |-> SubSeq(sortedTasks, start + 1, end),
               items_nil |-> FALSE ]

\* What ListTasks returns: the set of its possible outcomes, one for each
\* order applySorting may leave the tasks in.
ListTasksCall(filter, sort, page, limit, userID) ==
    LET filteredTasks == applyFilters(userTasks(userID), filter)
        Outcome(sortedTasks) ==
            IF limit = 0
            THEN [ err |-> "panic: integer divide by zero",
                   items |-> <<>>, items_nil |-> TRUE, pag |-> None ]
            ELSE
            LET total      == Len(sortedTasks)
                pages      == totalPages(total, limit)
                window     == paginate(sortedTasks, page, limit)
                info       == [ page |-> page, limit |-> limit,
                                total |-> total, total_pages |-> pages ]
            IN  [ err       |-> window.err,
                  items     |-> window.items,
                  items_nil |-> window.items_nil,
                  pag       |-> IF window.err = "" THEN Some(info) ELSE None ]
    IN  { Outcome(sortedTasks) : sortedTasks \in applySorting(filteredTasks, sort) }

---------------------------------------------------------------------------
(* The query parsers of the task handler; "" is a parameter left out *)

\* validFields of parseSort
validFields == { "created_at", "updated_at", "title", "status" }

\* c.Query(key, defaultValue): the default stands in for an empty value
QueryOr(value, defaultValue) == IF value = "" THEN defaultValue ELSE value

\* parseSort, from the values of sort_field and sort_order
parseSort(sortFieldParam, sortOrderParam) ==
    LET sortField == QueryOr(sortFieldParam, "created_at")
        sortOrder == QueryOr(sortOrderParam, "desc")
    IN  Some([ field |-> IF sortField \notin validFields THEN "created_at"
                         ELSE sortField,
               order |-> IF sortOrder # "asc" /\ sortOrder # "desc" THEN "desc"
                         ELSE sortOrder ])

\* parseFilter, from the values of status and search (code point
\* sequences; the status is passed on as it is)
parseFilter(statusStr, search) ==
    IF statusStr = "" /\ search = <<>> THEN None
    ELSE Some([ status |-> IF statusStr # "" THEN Some(statusStr) ELSE None,
                search |-> search ])

\* the number a sequence of decimal digits denotes
RECURSIVE DecimalValue(_)
DecimalValue(digits) ==
    IF digits = <<>> THEN 0
    ELSE DecimalValue(SubSeq(digits, 1, Len(digits) - 1)) * 10
           + (digits[Len(digits)] - 48)

\* the decimal digits of a natural number
RECURSIVE Itoa(_)
Itoa(n) ==
    IF n < 10 THEN << 48 + n >> ELSE Append(Itoa(n \div 10), 48 + (n % 10))

\* strconv.Atoi on a sequence of code points: an optional sign and at
\* least one decimal digit, or a syntax error; a number that does not fit
\* an int is a range error
Atoi(str) ==
    LET signed == Len(str) > 0 /\ str[1] \in {43, 45}
        digits == IF signed THEN Tail(str) ELSE str
        zeros  == IF \A i \in 1..Len(digits) : digits[i] = 48 THEN Len(digits)
                  ELSE (CHOOSE i \in 1..Len(digits) :
                          /\ digits[i] # 48
                          /\ \A j \in 1..(i - 1) : digits[j] = 48) - 1
        significant == SubSeq(digits, zeros + 1, Len(digits))
    IN  IF digits = <<>> \/ \E i \in 1..Len(digits) : digits[i] \notin 48..57
        THEN [ok |-> FALSE, n |-> 0]
        ELSE IF Len(significant) > Len(Itoa(MaxInt))
        THEN [ok |-> FALSE, n |-> 0]
        ELSE LET value == IF str[1] = 45 THEN -DecimalValue(significant)
                          ELSE DecimalValue(significant)
             IN  IF value > MaxInt \/ value < -MaxInt - 1
                 THEN [ok |-> FALSE, n |-> 0]
                 ELSE [ok |-> TRUE, n |-> value]

\* parsePagination with a limit above 100 cut down to 100
parsePaginationClamping(pageStr, limitStr) ==
    LET p == Atoi(pageStr)
        l == Atoi(limitStr)
    IN  << IF pageStr # <<>> /\ p.ok /\ p.n > 0 THEN p.n ELSE 1,
           IF limitStr # <<>> /\ l.ok /\ l.n > 0
           THEN (IF l.n <= 100 THEN l.n ELSE 100)
           ELSE 10 >>

\* parsePagination that takes every limit from 0 to 100
parsePaginationFromZero(pageStr, limitStr) ==
    LET p == Atoi(pageStr)
        l == Atoi(limitStr)
    IN  << IF pageStr # <<>> /\ p.ok /\ p.n > 0 THEN p.n ELSE 1,
           IF limitStr # <<>> /\ l.ok /\ l.n >= 0 /\ l.n <= 100 THEN l.n
           ELSE 10 >>

\* parsePagination, from the values of page and limit: <<page, limit>>
parsePagination(pageStr, limitStr) ==
    LET p == Atoi(pageStr)
        l == Atoi(limitStr)
    IN  << IF pageStr # <<>> /\ p.ok /\ p.n > 0 THEN p.n ELSE 1,
           IF limitStr # <<>> /\ l.ok /\ l.n > 0 /\ l.n <= 100 THEN l.n
           ELSE 10 >>

---------------------------------------------------------------------------
(* pkg/config, pkg/utils and internal/middleware/auth_middleware.go.       *)
(* A token is a record of the claims it carries, its expiry and the key it *)
(* is signed with; form tells a JSON Web Token from any other text.  An    *)
(* Authorization header is its scheme and the token after it; a header     *)
(* that was not sent has the scheme "".                                    *)

\* the defaults of config.Load
SecretKey == "todo-api-secret-key-change-in-production"
AccessTokenTTL == 900            \* 15 minutes, in seconds
RefreshTokenTTL == 604800        \* 7 days, in seconds

Email1 == <<106, 111, 104, 110, 46, 100, 111, 101, 64, 101, 120, 97, 109, 112, 108, 101, 46, 99, 111, 109>>
Email2 == <<106, 97, 110, 101, 46, 115, 109, 105, 116, 104, 64, 101, 120, 97, 109, 112, 108, 101, 46, 99, 111, 109>>
Email3 == <<109, 105, 107, 101, 46, 119, 105, 108, 115, 111, 110, 64, 101, 120, 97, 109, 112, 108, 101, 46, 99, 111, 109>>

NoToken == [form |-> "", user_id |-> "", email |-> <<>>, exp |-> 0, key |-> ""]

\* utils.GenerateToken at the time t
GenerateToken(secretKey, userID, email, ttl, t) ==
    [ form |-> "jwt", user_id |-> userID, email |-> email,
      exp |-> t + ttl, key |-> secretKey ]

\* utils.ExtractTokenFromHeader
ExtractTokenFromHeader(authHeader) ==
    IF authHeader.scheme # "Bearer" \/ authHeader.token.form = ""
    THEN [err |-> "invalid authorization header", token |-> NoToken]
    ELSE [err |-> "", token |-> authHeader.token]

\* utils.ValidateToken at the time t
ValidateToken(token, secretKey, t) ==
    IF token.form # "jwt" \/ token.key # secretKey \/ token.exp < t
    THEN [err |-> "invalid token", user_id |-> "", email |-> <<>>]
    ELSE [err |-> "", user_id |-> token.user_id, email |-> token.email]

\* an AuthMiddleware that passes every request that carries a token on
AuthMiddlewareNoValidation(authHeader, t) ==
    LET x == ExtractTokenFromHeader(authHeader) IN
    IF x.err # ""
    THEN [ next |-> FALSE, status |-> 401,
           message |-> "Authorization header is required",
           user_id |-> "", user_email |-> <<>> ]
    ELSE [ next |-> TRUE, status |-> 0, message |-> "",
           user_id |-> x.token.user_id, user_email |-> x.token.email ]

\* AuthMiddleware for a request that arrives at the time t: either its
\* own response, or c.Next() with user_id and user_email set
AuthMiddlewareCall(authHeader, t) ==
    LET x == ExtractTokenFromHeader(authHeader) IN
    IF x.err # ""
    THEN [ next |-> FALSE, status |-> 401,
           message |-> "Authorization header is required",
           user_id |-> "", user_email |-> <<>> ]
    ELSE LET claims == ValidateToken(x.token, SecretKey, t) IN
         IF claims.err # ""
         THEN [ next |-> FALSE, status |-> 401,
                message |-> "Invalid or expired token",
                user_id |-> "", user_email |-> <<>> ]
         ELSE [ next |-> TRUE, status |-> 0, message |-> "",
                user_id |-> claims.user_id, user_email |-> claims.email ]

---------------------------------------------------------------------------
(* internal/domain/auth, internal/service/auth and                         *)
(* internal/handler/auth/auth_handler.go                                   *)

Password123 == <<112, 97, 115, 115, 119, 111, 114, 100, 49, 50, 51>>

\* the users NewService of the auth service seeds, keyed by email
users ==
    (Email1 :> [id |-> User1, email |-> Email1, password |-> Password123])
    @@ (Email2 :> [id |-> User2, email |-> Email2, password |-> Password123])
    @@ (Email3 :> [id |-> User3, email |-> Email3, password |-> Password123])

\* isValidEmail: an "@" and a "." somewhere in the text
isValidEmail(email) ==
    /\ \E i \in 1..Len(email) : email[i] = 64
    /\ \E i \in 1..Len(email) : email[i] = 46

\* LoginRequest.Validate
ValidateLoginRequest(req) ==
    IF TrimSpace(req.email) = <<>> THEN "email is required"
    ELSE IF ~isValidEmail(req.email) THEN "invalid email format"
    ELSE IF TrimSpace(req.password) = <<>> THEN "password is required"
    ELSE IF ByteLen(req.password) < 8
    THEN "password must be at least 8 characters long"
    ELSE ""

NoTokenResponse ==
    [ access_token |-> NoToken, refresh_token |-> NoToken,
      token_type |-> "", expires_in |-> 0 ]

\* Login that tells an unknown email from a wrong password
LoginTellsWhichCheckFailed(req, t) ==
    LET verr == ValidateLoginRequest(req) IN
    IF verr # "" THEN [err |-> verr, data |-> NoTokenResponse]
    ELSE IF req.email \notin DOMAIN users
    THEN [err |-> "user not found", data |-> NoTokenResponse]
    ELSE [err |-> "invalid email or password", data |-> NoTokenResponse]

\* Login that signs the tokens of every user in the name of the first
LoginAsFirstUser(req, t) ==
    LET verr == ValidateLoginRequest(req) IN
    IF verr # "" THEN [err |-> verr, data |-> NoTokenResponse]
    ELSE IF req.email \notin DOMAIN users
    THEN [err |-> "invalid email or password", data |-> NoTokenResponse]
    ELSE IF users[req.email].password # req.password
    THEN [err |-> "invalid email or password", data |-> NoTokenResponse]
    ELSE [ err  |-> "",
           data |-> [ access_token  |-> GenerateToken(SecretKey, User1,
                                           Email1, AccessTokenTTL, t),
                      refresh_token |-> GenerateToken(SecretKey, User1,
                                           Email1, RefreshTokenTTL, t),
                      token_type    |-> "Bearer",
                      expires_in    |-> AccessTokenTTL ] ]

\* What Login returns at the time t
LoginCall(req, t) ==
    LET verr == ValidateLoginRequest(req) IN
    IF verr # "" THEN [err |-> verr, data |-> NoTokenResponse]
    ELSE IF req.email \notin DOMAIN users
    THEN [err |-> "invalid email or password", data |-> NoTokenResponse]
    ELSE IF users[req.email].password # req.password
    THEN [err |-> "invalid email or password", data |-> NoTokenResponse]
    ELSE LET user == users[req.email] IN
         [ err  |-> "",
           data |-> [ access_token  |-> GenerateToken(SecretKey, user.id,
                                           user.email, AccessTokenTTL, t),
                      refresh_token |-> GenerateToken(SecretKey, user.id,
                                           user.email, RefreshTokenTTL, t),
                      token_type    |-> "Bearer",
                      expires_in    |-> AccessTokenTTL ] ]

\* a Login handler that answers the validation errors of Login with 400
LoginResponseBadRequest(body, t) ==
    IF ~body.ok
    THEN [ status |-> 400, message |-> "Invalid request body",
           called |-> "", err |-> "", data |-> NoTokenResponse ]
    ELSE LET r == LoginCall(body.req, t) IN
         IF r.err # ""
         THEN [ status  |-> IF r.err = "invalid email or password"
                            THEN 401 ELSE 400,
                message |-> r.err,
                called |-> "Login", err |-> r.err, data |-> NoTokenResponse ]
         ELSE [ status |-> 200, message |-> "Login successful",
                called |-> "Login", err |-> "", data |-> r.data ]

\* The response of the Login handler
LoginResponse(body, t) ==
    IF ~body.ok
    THEN [ status |-> 400, message |-> "Invalid request body",
           called |-> "", err |-> "", data |-> NoTokenResponse ]
    ELSE LET r == LoginCall(body.req, t) IN
         IF r.err # ""
         THEN [ status |-> 401, message |-> r.err,
                called |-> "Login", err |-> r.err, data |-> NoTokenResponse ]
         ELSE [ status |-> 200, message |-> "Login successful",
                called |-> "Login", err |-> "", data |-> r.data ]

---------------------------------------------------------------------------
(* internal/handler/task/task_handler.go: the response of each handler,    *)
(* the service method it called ("" when none) and the map it leaves.      *)
(* A body is [ok, req]: whether c.BodyParser accepted it, and the request  *)
(* it yields.  A path parameter is the text of an identifier; the          *)
(* identifiers of the model are written in decimal, so uuid.Parse reads a  *)
(* decimal number and refuses any other text.                              *)

ParseID(taskIDStr) == Atoi(taskIDStr)

CreateTaskResponse(body, userID, id, t1, t2) ==
    IF ~body.ok
    THEN [ status |-> 400, message |-> "Invalid request body",
           called |-> "", err |-> "", tasks |-> tasks ]
    ELSE LET r == CreateTaskCall(body.req, userID, id, t1, t2) IN
         IF r.err # ""
         THEN [ status |-> 400, message |-> r.err,
                called |-> "CreateTask", err |-> r.err, tasks |-> r.tasks ]
         ELSE [ status |-> 201, message |-> "Task created successfully",
                called |-> "CreateTask", err |-> "", tasks |-> r.tasks ]

GetTaskResponse(taskIDStr, userID) ==
    LET taskID == ParseID(taskIDStr) IN
    IF ~taskID.ok
    THEN [ status |-> 400, message |-> "Invalid task ID",
           called |-> "", err |-> "", tasks |-> tasks ]
    ELSE LET r == GetTaskByIDCall(taskID.n, userID) IN
         IF r.err = "task not found"
         THEN [ status |-> 404, message |-> "Task not found",
                called |-> "GetTaskByID", err |-> r.err, tasks |-> tasks ]
         ELSE IF r.err # ""
         THEN [ status |-> 403, message |-> r.err,
                called |-> "GetTaskByID", err |-> r.err, tasks |-> tasks ]
         ELSE [ status |-> 200, message |-> "Task retrieved successfully",
                called |-> "GetTaskByID", err |-> "", tasks |-> tasks ]

UpdateTaskResponse(taskIDStr, body, userID, t) ==
    LET taskID == ParseID(taskIDStr) IN
    IF ~taskID.ok
    THEN [ status |-> 400, message |-> "Invalid task ID",
           called |-> "", err |-> "", tasks |-> tasks ]
    ELSE IF ~body.ok
    THEN [ status |-> 400, message |-> "Invalid request body",
           called |-> "", err |-> "", tasks |-> tasks ]
    ELSE LET r == UpdateTaskCall(taskID.n, body.req, userID, t) IN
         IF r.err = "task not found"
         THEN [ status |-> 404, message |-> "Task not found",
                called |-> "UpdateTask", err |-> r.err, tasks |-> r.tasks ]
         ELSE IF r.err # ""
         THEN [ status |-> 400, message |-> r.err,
                called |-> "UpdateTask", err |-> r.err, tasks |-> r.tasks ]
         ELSE [ status |-> 200, message |-> "Task updated successfully",
                called |-> "UpdateTask", err |-> "", tasks |-> r.tasks ]

DeleteTaskResponse(taskIDStr, userID) ==
    LET taskID == ParseID(taskIDStr) IN
    IF ~taskID.ok
    THEN [ status |-> 400, message |-> "Invalid task ID",
           called |-> "", err |-> "", tasks |-> tasks ]
    ELSE LET r == DeleteTaskCall(taskID.n, userID) IN
         IF r.err = "task not found"
         THEN [ status |-> 404, message |-> "Task not found",
                called |-> "DeleteTask", err |-> r.err, tasks |-> r.tasks ]
         ELSE IF r.err # ""
         THEN [ status |-> 403, message |-> r.err,
                called |-> "DeleteTask", err |-> r.err, tasks |-> r.tasks ]
         ELSE [ status |-> 200, message |-> "Task deleted successfully",
                called |-> "DeleteTask", err |-> "", tasks |-> r.tasks ]

\* The possible responses of ListTasks to the query parameters query.
\* ListTasks returns no error; when it panics, the recover middleware hands
\* the panic to customErrorHandler, which answers 500 with its text.
ListTasksResponse(query, userID) ==
    LET filter == parseFilter(query.status, query.search)
        sort   == parseSort(query.sort_field, query.sort_order)
        pl     == parsePagination(query.page, query.limit)
    IN  { IF r.err # ""
          THEN [ status |-> 500, message |-> r.err,
                 called |-> "ListTasks", err |-> r.err, tasks |-> tasks,
                 data |-> <<>>, pag |-> None ]
          ELSE [ status |-> 200, message |-> "Tasks retrieved successfully",
                 called |-> "ListTasks", err |-> "", tasks |-> tasks,
                 data |-> r.items, pag |-> r.pag ]
          : r \in ListTasksCall(filter, sort, pl[1], pl[2], userID) }

---------------------------------------------------------------------------
(* The service as a state machine: one action per method *)

\* the k-th reading of time.Now() after the last one
Now(k) == now + k * tick

\* the request of a call that carries none
NoReq == [title |-> None, status |-> None]

\* the goroutines the server runs handlers on, one per request in flight
Goroutines == {"g1", "g2"}

\* a goroutine that is inside no call
NoCall ==
    [ op |-> "", pc |-> "idle", id |-> 0, req |-> NoReq, user_id |-> "",
      new |-> None, err |-> "", stale |-> FALSE, racer |-> None, begun |-> 0 ]

Init ==
    \E d \in ClockSteps :
        /\ tasks = NewService(d)
        /\ nextID = 5
        /\ now = 8 * d
        /\ tick = d
        /\ deleted = {}
        /\ writes = 0
        /\ last = [op |-> "NewService", req |-> NoReq, err |-> ""]
        /\ calls = [g \in Goroutines |-> NoCall]

CreateTask(req, userID) ==
    LET r == CreateTaskCall(req, userID, NewUUID, Now(1), Now(2)) IN
    /\ tasks' = r.tasks
    /\ last' = [ op  |-> "CreateTask",
                 req |-> [title |-> Some(req.title), status |-> None],
                 err |-> r.err ]
    /\ IF r.err = ""
       THEN /\ nextID' = nextID + 1
            /\ now' = Now(2)
            /\ writes' = writes + 1
       ELSE UNCHANGED <<nextID, now, writes>>
    /\ UNCHANGED <<tick, deleted, calls>>

\* a GetTaskByID that stamps the task it returns
GetTaskByIDStamping(id, userID) ==
    /\ last' = [ op  |-> "GetTaskByID", req |-> NoReq,
                 err |-> GetTaskByIDCall(id, userID).err ]
    /\ tasks' = IF GetTaskByIDCall(id, userID).err = ""
                THEN [tasks EXCEPT ![id].updated_at = now + 1]
                ELSE tasks
    /\ UNCHANGED <<nextID, now, tick, deleted, writes, calls>>

GetTaskByID(id, userID) ==
    /\ last' = [ op  |-> "GetTaskByID", req |-> NoReq,
                 err |-> GetTaskByIDCall(id, userID).err ]
    /\ UNCHANGED <<tasks, nextID, now, tick, deleted, writes, calls>>

UpdateTask(id, req, userID) ==
    LET r == UpdateTaskCall(id, req, userID, Now(1)) IN
    /\ tasks' = r.tasks
    /\ last' = [op |-> "UpdateTask", req |-> req, err |-> r.err]
    /\ IF r.err = ""
       THEN /\ now' = Now(1)
            /\ writes' = writes + 1
       ELSE UNCHANGED <<now, writes>>
    /\ UNCHANGED <<nextID, tick, deleted, calls>>

DeleteTask(id, userID) ==
    LET r == DeleteTaskCall(id, userID) IN
    /\ tasks' = r.tasks
    /\ last' = [op |-> "DeleteTask", req |-> NoReq, err |-> r.err]
    /\ IF r.err = ""
       THEN /\ deleted' = deleted \cup {id}
            /\ writes' = writes + 1
       ELSE UNCHANGED <<deleted, writes>>
    /\ UNCHANGED <<nextID, now, tick, calls>>

ListTasks(filter, sort, page, limit, userID) ==
    /\ \E r \in ListTasksCall(filter, sort, page, limit, userID) :
          last' = [op |-> "ListTasks", req |-> NoReq, err |-> r.err]
    /\ UNCHANGED <<tasks, nextID, now, tick, deleted, writes, calls>>

---------------------------------------------------------------------------
(* The routes of setupRoutes: one action per route.  The tasks group runs  *)
(* AuthMiddleware before its handler.  last keeps the response, the        *)
(* service method the request reached and the user_id the handler ran      *)
(* with.  The middleware and Login read the clock without moving it: now   *)
(* is the latest reading of the task service.                              *)

NoHeader == [scheme |-> "", token |-> NoToken]

Answered(route, authHeader, r, userID, pag, data) ==
    [ op |-> route, auth |-> authHeader, req |-> NoReq, err |-> r.err,
      status |-> r.status, message |-> r.message, called |-> r.called,
      user_id |-> userID, pag |-> pag, data |-> data ]

\* the response of AuthMiddleware when it does not call c.Next()
Unauthorized(route, authHeader, a) ==
    /\ last' = [ op |-> route, auth |-> authHeader, req |-> NoReq,
                 err |-> "", status |-> a.status, message |-> a.message,
                 called |-> "", user_id |-> "", pag |-> None,
                 data |-> NoTokenResponse ]
    /\ UNCHANGED <<tasks, nextID, now, tick, deleted, writes, calls>>

PostAuthLogin(body) ==
    /\ last' = [ Answered("POST /auth/login", NoHeader,
                          LoginResponse(body, now), "", None,
                          LoginResponse(body, now).data)
                 EXCEPT !.req = body.req ]
    /\ UNCHANGED <<tasks, nextID, now, tick, deleted, writes, calls>>

PostTasks(authHeader, body) ==
    LET a == AuthMiddlewareCall(authHeader, now) IN
    IF ~a.next THEN Unauthorized("POST /tasks", authHeader, a)
    ELSE LET r == CreateTaskResponse(body, a.user_id, NewUUID, Now(1), Now(2))
         IN  /\ tasks' = r.tasks
             /\ last' = Answered("POST /tasks", authHeader, r, a.user_id,
                                 None, NoTokenResponse)
             /\ IF r.status = 201
                THEN /\ nextID' = nextID + 1
                     /\ now' = Now(2)
                     /\ writes' = writes + 1
                ELSE UNCHANGED <<nextID, now, writes>>
             /\ UNCHANGED <<tick, deleted, calls>>

GetTasksID(authHeader, taskIDStr) ==
    LET a == AuthMiddlewareCall(authHeader, now) IN
    IF ~a.next THEN Unauthorized("GET /tasks/:id", authHeader, a)
    ELSE /\ last' = Answered("GET /tasks/:id", authHeader,
                             GetTaskResponse(taskIDStr, a.user_id),
                             a.user_id, None, NoTokenResponse)
         /\ UNCHANGED <<tasks, nextID, now, tick, deleted, writes, calls>>

PutTasksID(authHeader, taskIDStr, body) ==
    LET a == AuthMiddlewareCall(authHeader, now) IN
    IF ~a.next THEN Unauthorized("PUT /tasks/:id", authHeader, a)
    ELSE LET r == UpdateTaskResponse(taskIDStr, body, a.user_id, Now(1))
         IN  /\ tasks' = r.tasks
             /\ last' = Answered("PUT /tasks/:id", authHeader, r,
                                 a.user_id, None, NoTokenResponse)
             /\ IF r.status = 200
                THEN /\ now' = Now(1)
                     /\ writes' = writes + 1
                ELSE UNCHANGED <<now, writes>>
             /\ UNCHANGED <<nextID, tick, deleted, calls>>

DeleteTasksID(authHeader, taskIDStr) ==
    LET a == AuthMiddlewareCall(authHeader, now) IN
    IF ~a.next THEN Unauthorized("DELETE /tasks/:id", authHeader, a)
    ELSE LET r == DeleteTaskResponse(taskIDStr, a.user_id)
         IN  /\ tasks' = r.tasks
             /\ last' = Answered("DELETE /tasks/:id", authHeader, r,
                                 a.user_id, None, NoTokenResponse)
             /\ IF r.status = 200
                THEN /\ deleted' = deleted \cup {ParseID(taskIDStr).n}
                     /\ writes' = writes + 1
                ELSE UNCHANGED <<deleted, writes>>
             /\ UNCHANGED <<nextID, now, tick, calls>>

GetTasks(authHeader, query) ==
    LET a == AuthMiddlewareCall(authHeader, now) IN
    IF ~a.next THEN Unauthorized("GET /tasks", authHeader, a)
    ELSE /\ \E r \in ListTasksResponse(query, a.user_id) :
               last' = [ Answered("GET /tasks", authHeader, r, a.user_id,
                                  r.pag, NoTokenResponse)
                         EXCEPT !.req = query ]
         /\ UNCHANGED <<tasks, nextID, now, tick, deleted, writes, calls>>

---------------------------------------------------------------------------
(* The calls explored *)

TestTitle == <<84, 101, 115, 116, 32, 84, 97, 115, 107>>   \* Test Task
NewTitle  == <<66>>                                        \* B

\* identifiers a caller may present: every one handed out so far, and one
\* that never was
KnownIDs == 1..nextID

\* successful mutating calls are explored up to MaxWrites
Budget == writes' <= MaxWrites

\* update requests: the empty patch, a title with a status, and a valid
\* title with an invalid status
UpdateRequests ==
    { [title |-> None,           status |-> None],
      [title |-> Some(NewTitle), status |-> Some(StatusCancelled)],
      [title |-> Some(NewTitle), status |-> Some("invalid")] }

\* page windows of list requests: <<page, limit>>
Windows == { <<1, 10>>, <<2, 1>>, <<1, 0>> }

Create ==
    \E title \in { <<>>, TestTitle }, u \in Users :
        CreateTask([title |-> title], u) /\ Budget

Get ==
    \E id \in KnownIDs, u \in Users : GetTaskByID(id, u)

Change ==
    \E id \in KnownIDs, req \in UpdateRequests, u \in Users :
        UpdateTask(id, req, u) /\ Budget

Delete ==
    \E id \in KnownIDs, u \in Users : DeleteTask(id, u) /\ Budget

List ==
    \E w \in Windows, u \in Users : ListTasks(None, None, w[1], w[2], u)

Next == Create \/ Get \/ Change \/ Delete \/ List

Spec == Init /\ [][Next]_vars

\* Titles of create requests around the two checks of Validate: empty,
\* blank, blank and over-long, plain, padded, of 200 and 201 bytes, of 200
\* letters behind a space, and of 100, 101 and 200 two-byte letters
CreateTitles ==
    { <<>>, <<32, 9, 32>>, Rep(32, 200), Rep(32, 201),
      TestTitle, <<32>> \o TestTitle \o <<32>>,
      Rep(97, 200), Rep(97, 201), <<32>> \o Rep(97, 200),
      Rep(233, 100), Rep(233, 101), Rep(233, 200) }

\* update requests with a title of 200 bytes and one of 201, and an
\* unknown status
LongUpdateRequests ==
    { [title |-> Some(Rep(97, 200)), status |-> None],
      [title |-> Some(Rep(97, 201)), status |-> None],
      [title |-> Some(Rep(97, 200)), status |-> Some("invalid")],
      [title |-> Some(Rep(97, 201)), status |-> Some("invalid")] }

\* successful mutating calls with such titles are explored up to
\* MaxLongWrites
LongBudget == writes' <= MaxLongWrites

CreateTitled ==
    \E title \in { <<>>, Rep(32, 201), <<32>> \o TestTitle \o <<32>>,
                    Rep(97, 200), Rep(97, 201), Rep(233, 101) },
       u \in Users :
        CreateTask([title |-> title], u) /\ LongBudget

ChangeTitled ==
    \E id \in KnownIDs, req \in LongUpdateRequests, u \in Users :
        UpdateTask(id, req, u) /\ LongBudget

\* the service under create and update requests with titles at the limits
NextBoundary == CreateTitled \/ ChangeTitled

SpecBoundary == Init /\ [][NextBoundary]_vars

\* Titles that differ in case, as in the search scenarios
AlphaTitle == <<65, 108, 112, 104, 97>>   \* Alpha
BetaTitle  == <<98, 101, 116, 97>>        \* beta

\* successful mutating calls of a behaviour of SpecList are explored up to
\* MaxListWrites
ListBudget == writes' <= MaxListWrites

CreateListed ==
    \E title \in { AlphaTitle, BetaTitle } :
        CreateTask([title |-> title], User1) /\ ListBudget

ChangeListed ==
    \E id \in KnownIDs :
        /\ UpdateTask(id, [title |-> None, status |-> Some(StatusCompleted)],
                      User1)
        /\ ListBudget

ListSorted ==
    \E u \in { User1, User2 },
       sort \in { None, Some([field |-> "status", order |-> "asc"]) },
       w \in { <<1, 2>>, <<3, 2>> } :
        ListTasks(None, sort, w[1], w[2], u)

\* the service under one user who creates tasks with recurring titles and
\* completes tasks, and list requests
NextList == CreateListed \/ ChangeListed \/ ListSorted

SpecList == Init /\ [][NextList]_vars

\* The requests sent to the routes.
\* Authorization headers: none, another scheme, no token after the scheme,
\* a text that is no token, a token signed with another key, an expired
\* token, the tokens of two users, and the token a login just returned.
TokenOf(userID, email) ==
    GenerateToken(SecretKey, userID, email, AccessTokenTTL, now)

BadHeaders ==
    { NoHeader,
      [scheme |-> "Basic", token |-> TokenOf(User1, Email1)],
      [scheme |-> "Bearer", token |-> NoToken],
      [scheme |-> "Bearer", token |-> [NoToken EXCEPT !.form = "text"]],
      [scheme |-> "Bearer",
       token |-> GenerateToken("another-key", User1, Email1,
                               AccessTokenTTL, now)],
      [scheme |-> "Bearer",
       token |-> GenerateToken(SecretKey, User1, Email1, AccessTokenTTL,
                               0 - AccessTokenTTL - 1)] }

GoodHeaders ==
    { [scheme |-> "Bearer", token |-> TokenOf(User1, Email1)],
      [scheme |-> "Bearer", token |-> TokenOf(User2, Email2)] }

IssuedHeaders ==
    IF last.op = "POST /auth/login" /\ last.status = 200
    THEN { [scheme |-> "Bearer", token |-> last.data.access_token] }
    ELSE {}

Headers == BadHeaders \cup GoodHeaders \cup IssuedHeaders

WrongPassword == <<119, 114, 111, 110, 103, 112, 97, 115, 115, 119, 111, 114, 100>>
ShortPassword == <<119, 114, 111, 110, 103>>
UnknownEmail  == <<110, 111, 110, 101, 120, 105, 115, 116, 101, 110, 116, 64, 101, 120, 97, 109, 112, 108, 101, 46, 99, 111, 109>>
UpperEmail1   == <<74, 111, 104, 110, 46, 68, 111, 101, 64, 101, 120, 97, 109, 112, 108, 101, 46, 99, 111, 109>>
BadEmail      == <<105, 110, 118, 97, 108, 105, 100, 45, 101, 109, 97, 105, 108>>

LoginBodies ==
    { [ok |-> FALSE, req |-> [email |-> <<>>, password |-> <<>>]] }
    \cup { [ok |-> TRUE, req |-> [email |-> e, password |-> pw]] :
             e \in {Email1, Email2, Email3, UnknownEmail},
             pw \in {Password123, WrongPassword, ShortPassword} }

CreateBodies ==
    { [ok |-> FALSE, req |-> [title |-> <<>>]],
      [ok |-> TRUE,  req |-> [title |-> <<>>]],
      [ok |-> TRUE,  req |-> [title |-> TestTitle]] }

UpdateBodies ==
    { [ok |-> FALSE, req |-> NoReq],
      [ok |-> TRUE, req |-> [ title  |-> Some(NewTitle),
                              status |-> Some(StatusCancelled) ]],
      [ok |-> TRUE, req |-> [ title  |-> Some(NewTitle),
                              status |-> Some("invalid") ]] }

\* path parameters: a task of the first user, one of the second, the
\* first task a run creates, and a text that is no identifier
IDText(id) == << 48 + id >>
TaskIDStrs == { IDText(1), IDText(3), IDText(5), <<120>> }

NoQuery ==
    [ status |-> "", search |-> <<>>, sort_field |-> "", sort_order |-> "",
      page |-> <<>>, limit |-> <<>> ]

\* limit: 2, 101, 0, abc and none; page: 2, the largest int and none
Queries ==
    { [NoQuery EXCEPT !.page = pg, !.limit = lim] :
        pg  \in { <<>>, <<50>>, Itoa(MaxInt) },
        lim \in { <<>>, <<50>>, <<49, 48, 49>>, <<48>>, <<97, 98, 99>> } }

ServeBudget == writes' <= MaxServedWrites

Login == \E body \in LoginBodies : PostAuthLogin(body)

ServeCreate ==
    \E h \in Headers, body \in CreateBodies : PostTasks(h, body) /\ ServeBudget

ServeGet ==
    \E h \in Headers, id \in TaskIDStrs : GetTasksID(h, id)

ServeUpdate ==
    \E h \in Headers, id \in TaskIDStrs, body \in UpdateBodies :
        PutTasksID(h, id, body) /\ ServeBudget

ServeDelete ==
    \E h \in Headers, id \in TaskIDStrs : DeleteTasksID(h, id) /\ ServeBudget

ServeList ==
    \E h \in Headers, q \in Queries : GetTasks(h, q)

NextServe ==
    Login \/ ServeCreate \/ ServeGet \/ ServeUpdate \/ ServeDelete \/ ServeList

SpecServe == Init /\ [][NextServe]_vars

---------------------------------------------------------------------------
(* Requests served concurrently: the service takes no lock, so a call is
   a sequence of steps of its goroutine, one access to shared memory
   each, and the steps of two calls interleave *)

\* the goroutine is inside a read of the map (s.tasks[id], range s.tasks)
Reading(c) == c.pc \in {"looking", "scanning"}

\* the goroutine is inside a write of the map (s.tasks[id] = t, delete)
Writing(c) == c.pc \in {"inserting", "removing"}

\* the runtime found the map accessed by two goroutines and stopped the
\* process ("fatal error: concurrent map read and map write",
\* "fatal error: concurrent map writes")
Fatal == \E g \in Goroutines : calls[g].pc = "fatal"

\* the call c returns err
Returned(c, err) == [c EXCEPT !.pc = "returned", !.err = err]

\* a string header stored by two goroutines at once: the data pointer of
\* one text with the length of the other; the bytes past the end of the
\* first text are whatever memory holds there
TornTexts(ptr, len) ==
    IF Len(len) <= Len(ptr)
    THEN { SubSeq(ptr, 1, Len(len)) }
    ELSE { ptr \o Rep(b, Len(len) - Len(ptr)) : b \in {0, 255} }

\* len(status) of the four status constants
StatusLen(status) ==
    CASE status = StatusPending    -> 7
      [] status = StatusInProgress -> 11
      [] status = StatusCompleted  -> 9
      [] status = StatusCancelled  -> 9

\* the same for the header of a status: a status when both have the same
\* length, and else the bytes at one pointer with the length of the other
TornStatuses(ptr, len) ==
    IF StatusLen(ptr) = StatusLen(len)
    THEN { ptr }
    ELSE { [ptr |-> ptr, len |-> StatusLen(len)] }

\* a handler calls a method of the service on goroutine g: the part of
\* the method before its first access to shared memory
Go(g, op, id, req, userID) ==
    LET c    == [ NoCall EXCEPT !.op = op, !.id = id, !.req = req,
                                !.user_id = userID,
                                !.begun = calls[g].begun + 1 ]
        verr == IF op = "CreateTask"
                THEN ValidateCreateRequest([title |-> req.title[1]])
                ELSE IF op = "UpdateTask" THEN ValidateUpdateRequest(req)
                ELSE ""
    IN  /\ ~Fatal
        /\ calls[g].pc \in {"idle", "returned"}
        /\ calls[g].begun < MaxCalls
        /\ IF verr # ""
           THEN /\ calls' = [calls EXCEPT ![g] = Returned(c, verr)]
                /\ last' = [op |-> op, req |-> req, err |-> verr]
                /\ UNCHANGED <<nextID, now>>
           ELSE IF op = "CreateTask"
           THEN /\ calls' = [calls EXCEPT ![g] =
                     [c EXCEPT !.pc  = "insert",
                               !.id  = NewUUID,
                               !.new = Some(NewTask(NewUUID, req.title[1],
                                                    userID, Now(1), Now(2)))]]
                /\ nextID' = nextID + 1
                /\ now' = Now(2)
                /\ UNCHANGED last
           ELSE /\ calls' = [calls EXCEPT ![g] =
                     [c EXCEPT !.pc = IF op = "ListTasks" THEN "scan"
                                      ELSE "lookup"]]
                /\ UNCHANGED <<nextID, now, last>>
        /\ UNCHANGED <<tasks, tick, deleted, writes>>

\* goroutine g enters an access to the map.  When the access overlaps a
\* write of another goroutine, or is a write that overlaps any access,
\* the runtime may find the map in use and stop the process, or may
\* miss it and carry on.
MapAccessBegin(g) ==
    LET c      == calls[g]
        others == { calls[h] : h \in Goroutines \ {g} }
        racing == IF c.pc \in {"insert", "remove"}
                  THEN \E o \in others : Reading(o) \/ Writing(o)
                  ELSE \E o \in others : Writing(o)
        inside == CASE c.pc = "lookup" -> "looking"
                    [] c.pc = "scan"   -> "scanning"
                    [] c.pc = "insert" -> "inserting"
                    [] c.pc = "remove" -> "removing"
    IN  /\ ~Fatal
        /\ c.pc \in {"lookup", "scan", "insert", "remove"}
        /\ \/ calls' = [calls EXCEPT ![g].pc = inside]
           \/ racing /\ calls' = [calls EXCEPT ![g].pc = "fatal"]
        /\ UNCHANGED <<tasks, nextID, now, tick, deleted, writes, last>>

\* goroutine g leaves its access to the map: the access takes effect and
\* the method goes on to its next access, or returns.  A lookup that
\* overlaps a write of another goroutine may miss a key that is there.
MapAccessEnd(g) ==
    LET c      == calls[g]
        raced  == \E h \in Goroutines \ {g} : Writing(calls[h])
        found  == IF c.id \in DOMAIN tasks
                  THEN IF raced THEN {TRUE, FALSE} ELSE {TRUE}
                  ELSE {FALSE}
    IN  /\ ~Fatal
        /\ Reading(c) \/ Writing(c)
        /\ CASE c.pc = "looking" ->
                 \E exists \in found :
                    LET err  == IF ~exists THEN "task not found"
                                ELSE IF tasks[c.id].user_id # c.user_id
                                THEN "access denied"
                                ELSE ""
                        done == err # "" \/ c.op = "GetTaskByID"
                    IN  /\ calls' = [calls EXCEPT ![g] =
                              IF done THEN Returned(c, err)
                              ELSE [c EXCEPT !.pc =
                                      IF c.op = "UpdateTask" THEN "title"
                                      ELSE "remove"]]
                        /\ last' = IF done
                                   THEN [op |-> c.op, req |-> c.req,
                                         err |-> err]
                                   ELSE last
                        /\ UNCHANGED <<tasks, deleted, writes>>
             [] c.pc = "scanning" ->
                 /\ calls' = [calls EXCEPT ![g] = Returned(c, "")]
                 /\ last' = [op |-> c.op, req |-> c.req, err |-> ""]
                 /\ UNCHANGED <<tasks, deleted, writes>>
             [] c.pc = "inserting" ->
                 /\ tasks' = (c.id :> c.new[1]) @@ tasks
                 /\ calls' = [calls EXCEPT ![g] = Returned(c, "")]
                 /\ last' = [op |-> c.op, req |-> c.req, err |-> ""]
                 /\ writes' = writes + 1
                 /\ UNCHANGED deleted
             [] c.pc = "removing" ->
                 /\ tasks' = [k \in DOMAIN tasks \ {c.id} |-> tasks[k]]
                 /\ deleted' = deleted \cup {c.id}
                 /\ calls' = [calls EXCEPT ![g] = Returned(c, "")]
                 /\ last' = [op |-> c.op, req |-> c.req, err |-> ""]
                 /\ writes' = writes + 1
        /\ UNCHANGED <<nextID, now, tick>>

\* goroutine g does the next assignment of Task.Update through the
\* pointer its lookup returned: t.Title, t.Status, t.UpdatedAt.  The
\* pointer outlives the map entry, so after a DeleteTask the assignment
\* lands in a task that is in the store no more.  A string assigned by
\* two goroutines at once may end up torn.
FieldWrite(g) ==
    LET c     == calls[g]
        live  == c.id \in DOMAIN tasks
        rival == { h \in Goroutines \ {g} :
                     calls[h].pc = c.pc /\ calls[h].id = c.id }
        after(next, stored) ==
            [ h \in Goroutines |->
                IF h = g
                THEN [c EXCEPT !.pc = next, !.racer = None,
                               !.stale = c.stale \/ ~live]
                ELSE IF h \in rival /\ live
                THEN [calls[h] EXCEPT !.racer = Some(stored)]
                ELSE calls[h] ]
    IN  /\ ~Fatal
        /\ c.pc \in {"title", "status", "updated_at"}
        /\ CASE c.pc = "title" ->
                 IF c.req.title = None
                 THEN /\ calls' = [calls EXCEPT ![g].pc = "status"]
                      /\ UNCHANGED <<tasks, now, writes, last>>
                 ELSE \E v \in {c.req.title[1]} \cup
                          (IF c.racer = None THEN {}
                           ELSE TornTexts(c.req.title[1], c.racer[1]) \cup
                                TornTexts(c.racer[1], c.req.title[1])) :
                        /\ tasks' = IF live
                                    THEN [tasks EXCEPT ![c.id].title = v]
                                    ELSE tasks
                        /\ calls' = after("status", c.req.title[1])
                        /\ UNCHANGED <<now, writes, last>>
             [] c.pc = "status" ->
                 IF c.req.status = None
                 THEN /\ calls' = [calls EXCEPT ![g].pc = "updated_at"]
                      /\ UNCHANGED <<tasks, now, writes, last>>
                 ELSE \E v \in {c.req.status[1]} \cup
                          (IF c.racer = None THEN {}
                           ELSE TornStatuses(c.req.status[1], c.racer[1]) \cup
                                TornStatuses(c.racer[1], c.req.status[1])) :
                        /\ tasks' = IF live
                                    THEN [tasks EXCEPT ![c.id].status = v]
                                    ELSE tasks
                        /\ calls' = after("updated_at", c.req.status[1])
                        /\ UNCHANGED <<now, writes, last>>
             [] c.pc = "updated_at" ->
                 /\ tasks' = IF live
                             THEN [tasks EXCEPT ![c.id].updated_at = Now(1)]
                             ELSE tasks
                 /\ now' = Now(1)
                 /\ calls' = [calls EXCEPT ![g] =
                        Returned([c EXCEPT !.stale = c.stale \/ ~live], "")]
                 /\ last' = [op |-> c.op, req |-> c.req, err |-> ""]
                 /\ writes' = writes + 1
        /\ UNCHANGED <<nextID, tick, deleted>>

\* the two patches concurrent updates carry: a title with a status each
Patch1 == [title |-> Some(NewTitle),  status |-> Some(StatusCancelled)]
Patch2 == [title |-> Some(TestTitle), status |-> Some(StatusCompleted)]

\* the calls of the first user that run concurrently: on the first
\* seeded task, and a create
Begin(g) ==
    \/ Go(g, "CreateTask", 0, [title |-> Some(TestTitle), status |-> None],
          User1)
    \/ Go(g, "GetTaskByID", 1, NoReq, User1)
    \/ \E req \in {Patch1, Patch2} : Go(g, "UpdateTask", 1, req, User1)
    \/ Go(g, "DeleteTask", 1, NoReq, User1)
    \/ Go(g, "ListTasks", 0, NoReq, User1)

NextRace ==
    \E g \in Goroutines :
        Begin(g) \/ MapAccessBegin(g) \/ MapAccessEnd(g) \/ FieldWrite(g)

SpecRace == Init /\ [][NextRace]_vars

---------------------------------------------------------------------------
(* Requests the properties range over *)

\* the tasks of the map owned by u
OwnedBy(u) == { id \in DOMAIN tasks : tasks[id].user_id = u }

\* a nil filter, and a filter with neither a status nor a search string
NoFilters == { None, Some([status |-> None, search |-> <<>>]) }

SomeSorts == { None, Some([field |-> "title", order |-> "asc"]) }

SomeWindows == { <<1, 10>>, <<2, 1>>, <<2, 2>>, <<1, 100>> }

\* update requests: an absent, a valid, an empty and a blank title with an
\* absent, each valid, an unknown and an empty status
AllUpdateRequests ==
    { [title |-> t, status |-> st] :
        t  \in { None, Some(NewTitle), Some(<<>>), Some(<<32, 32, 32>>) },
        st \in { None, Some(StatusPending), Some(StatusInProgress),
                 Some(StatusCompleted), Some(StatusCancelled),
                 Some("invalid"), Some("") } }

ValidUpdateRequests ==
    { req \in AllUpdateRequests : ValidateUpdateRequest(req) = "" }

---------------------------------------------------------------------------
(* C1 *)

\* C1: in every reachable state, ListTasks for a requester u with no filter,
\* whenever it returns, reports as total the number of tasks of the map
\* whose owner is u, and every item it returns is a task of the map owned by
\* u.
C1_ListNoFilterIsOwnersTasks ==
    \A u \in Users, f \in NoFilters, so \in SomeSorts, w \in SomeWindows :
        \A r \in ListTasksCall(f, so, w[1], w[2], u) :
            /\ r.err = ""
            /\ r.pag[1].total = Cardinality(OwnedBy(u))
            /\ \A i \in 1..Len(r.items) :
                  /\ r.items[i].user_id = u
                  /\ r.items[i].id \in OwnedBy(u)
                  /\ r.items[i] = tasks[r.items[i].id]

\* a list call has returned after writes that left tasks of all three users
C1_Witness ==
    /\ last.op = "ListTasks" /\ last.err = ""
    /\ writes > 0
    /\ \A u \in Users : OwnedBy(u) # {}

---------------------------------------------------------------------------
(* C2 *)

\* C2: GetTaskByID fails with "task not found" for an identifier absent from
\* the map, whoever asks; with "access denied" for a task of the map owned
\* by someone else; and returns the task, without error, exactly when it is
\* in the map and owned by the requester.
C2_GetChecksExistenceThenOwner ==
    \A id \in KnownIDs, u \in Users :
        LET r == GetTaskByIDCall(id, u) IN
        /\ id \notin DOMAIN tasks => r.err = "task not found"
        /\ (id \in DOMAIN tasks /\ tasks[id].user_id # u) => r.err = "access denied"
        /\ (id \in DOMAIN tasks /\ tasks[id].user_id = u) => r.err = ""
        /\ r.err = "" => r.task = Some(tasks[id])
        /\ r.err # "" => r.task = None

\* a get was refused for a task of someone else, while another identifier
\* has been deleted
C2_Witness ==
    /\ last.op = "GetTaskByID" /\ last.err = "access denied"
    /\ deleted # {}

---------------------------------------------------------------------------
(* C3 *)

\* C3 as stated: UpdateTask and DeleteTask by a user who does not own an
\* existing task fail with "access denied" and leave the map unchanged,
\* whatever the update request.
C3_Original ==
    \A id \in DOMAIN tasks : \A u \in Users \ {tasks[id].user_id} :
        /\ \A req \in AllUpdateRequests :
              LET r == UpdateTaskCall(id, req, u, Now(1)) IN
              r.err = "access denied" /\ r.tasks = tasks
        /\ LET r == DeleteTaskCall(id, u) IN
           r.err = "access denied" /\ r.tasks = tasks

\* C3 amended: DeleteTask, and UpdateTask with a request that passes
\* validation, by a user who does not own an existing task fail with
\* "access denied"; UpdateTask with a request that fails validation fails
\* with the validation error; in each case the map is unchanged.
C3_NonOwnerWriteRefused ==
    \A id \in DOMAIN tasks : \A u \in Users \ {tasks[id].user_id} :
        /\ \A req \in AllUpdateRequests :
              LET r == UpdateTaskCall(id, req, u, Now(1)) IN
              /\ r.err = IF ValidateUpdateRequest(req) # ""
                         THEN ValidateUpdateRequest(req)
                         ELSE "access denied"
              /\ r.tasks = tasks
              /\ r.task = None
        /\ LET r == DeleteTaskCall(id, u) IN
           r.err = "access denied" /\ r.tasks = tasks

\* an update was refused for want of ownership
C3_Witness ==
    /\ last.op = "UpdateTask" /\ last.err = "access denied"
    /\ writes > 0

---------------------------------------------------------------------------
(* C6 *)

\* C6: in every step, a task that stays in the map keeps its id, its owner
\* and its created_at, and its updated_at does not decrease.
C6_IdentityKeptTimeMonotone ==
    [][ \A id \in DOMAIN tasks :
            id \in DOMAIN tasks' =>
                /\ tasks'[id].id = tasks[id].id
                /\ tasks'[id].id = id
                /\ tasks'[id].user_id = tasks[id].user_id
                /\ tasks'[id].created_at = tasks[id].created_at
                /\ tasks'[id].updated_at >= tasks[id].updated_at ]_vars

\* an update has succeeded on a clock that advances, changing a title
C6_Witness ==
    /\ last.op = "UpdateTask" /\ last.err = ""
    /\ tick = 1
    /\ \E id \in DOMAIN tasks :
          /\ tasks[id].title = NewTitle
          /\ tasks[id].updated_at = now
          /\ tasks[id].updated_at > tasks[id].created_at + 1

---------------------------------------------------------------------------
(* C7 *)

\* C7: UpdateTask by the owner with a request that passes validation
\* succeeds; the task gets the title of the request if it has one and keeps
\* its title otherwise, likewise for the status; updated_at becomes the
\* reading of the clock taken by the call, also for the empty request; the
\* other fields and the other tasks are unchanged.
C7_UpdateAppliesPresentFields ==
    \A id \in DOMAIN tasks, req \in ValidUpdateRequests :
        LET old == tasks[id]
            r   == UpdateTaskCall(id, req, old.user_id, Now(1))
        IN  /\ r.err = ""
            /\ DOMAIN r.tasks = DOMAIN tasks
            /\ r.task = Some(r.tasks[id])
            /\ r.tasks[id].title =
                 IF req.title = None THEN old.title ELSE req.title[1]
            /\ r.tasks[id].status =
                 IF req.status = None THEN old.status ELSE req.status[1]
            /\ r.tasks[id].updated_at = Now(1)
            /\ r.tasks[id].id = old.id
            /\ r.tasks[id].user_id = old.user_id
            /\ r.tasks[id].created_at = old.created_at
            /\ \A k \in DOMAIN tasks \ {id} : r.tasks[k] = tasks[k]

\* the empty request has been served
C7_Witness ==
    /\ last.op = "UpdateTask" /\ last.err = ""
    /\ last.req = NoReq

---------------------------------------------------------------------------
(* C9 *)

\* the calls on a deleted identifier, but for UpdateTask
C9_DeletedStaysGone(id) ==
    /\ id \notin DOMAIN tasks
    /\ \A u \in Users :
          /\ GetTaskByIDCall(id, u).err = "task not found"
          /\ DeleteTaskCall(id, u).err = "task not found"
          /\ \A w \in SomeWindows :
                \A r \in ListTasksCall(None, None, w[1], w[2], u) :
                    \A i \in 1..Len(r.items) : r.items[i].id # id

\* C9 as stated: once DeleteTask has removed an identifier, GetTaskByID,
\* UpdateTask and DeleteTask on it fail with "task not found" and no list
\* returns it, whatever calls were served since.
C9_Original ==
    \A id \in deleted :
        /\ C9_DeletedStaysGone(id)
        /\ \A u \in Users, req \in AllUpdateRequests :
              UpdateTaskCall(id, req, u, Now(1)).err = "task not found"

\* C9 amended: as stated, but UpdateTask fails with "task not found" when
\* its request passes validation, and with the validation error otherwise.
C9_DeletedIsNotFound ==
    \A id \in deleted :
        /\ C9_DeletedStaysGone(id)
        /\ \A u \in Users, req \in AllUpdateRequests :
              LET r == UpdateTaskCall(id, req, u, Now(1)) IN
              /\ r.err = IF ValidateUpdateRequest(req) # ""
                         THEN ValidateUpdateRequest(req)
                         ELSE "task not found"
              /\ r.tasks = tasks

\* a seeded task has been deleted, a task has been created, and a get has
\* then failed for an absent identifier
C9_Witness ==
    /\ deleted # {}
    /\ nextID > 5
    /\ last.op = "GetTaskByID" /\ last.err = "task not found"

---------------------------------------------------------------------------
(* C4 *)

\* the outcome of CreateTask in the current state
CreateOutcome(title, u) ==
    CreateTaskCall([title |-> title], u, NewUUID, Now(1), Now(2))

\* CreateTask has inserted exactly one task, pending and owned by u
InsertedOne(r, u) ==
    /\ r.err = ""
    /\ r.task # None
    /\ r.task[1].status = StatusPending
    /\ r.task[1].user_id = u
    /\ r.task[1].id \notin DOMAIN tasks
    /\ DOMAIN r.tasks = DOMAIN tasks \cup {r.task[1].id}
    /\ r.tasks[r.task[1].id] = r.task[1]
    /\ \A k \in DOMAIN tasks : r.tasks[k] = tasks[k]

\* C4 as stated: for every title of 1 to 200 characters after trimming,
\* CreateTask by u succeeds, inserts exactly one task, and returns a task
\* with status pending and owner u.
C4_Original ==
    \A title \in CreateTitles, u \in Users :
        Len(TrimSpace(title)) \in 1..200 => InsertedOne(CreateOutcome(title, u), u)

---------------------------------------------------------------------------
(* C5 *)

---------------------------------------------------------------------------
(* C8 *)

\* C8: whenever UpdateTask returns an error, the map it leaves is the map it
\* found and it returns no task; a request with a valid title and a status
\* outside the enum fails with "invalid status" whatever the identifier and
\* the requester.
C8_NoPartialUpdate ==
    \A id \in KnownIDs, u \in Users,
       req \in AllUpdateRequests \cup LongUpdateRequests :
        LET r == UpdateTaskCall(id, req, u, Now(1)) IN
        /\ r.err # "" => (r.tasks = tasks /\ r.task = None)
        /\ (  /\ req.title \in {None, Some(NewTitle), Some(Rep(97, 200))}
              /\ req.status # None /\ ~isValidStatus(req.status[1]) )
              => r.err = "invalid status"
        /\ ValidateUpdateRequest(req) # "" => r.err = ValidateUpdateRequest(req)
        /\ r.err \in { "", "title cannot be empty",
                       "title must be at most 200 characters",
                       "invalid status", "task not found", "access denied" }

\* an update with a valid title and an invalid status has been refused
C8_Witness ==
    /\ last.op = "UpdateTask" /\ last.err = "invalid status"
    /\ last.req.title = Some(Rep(97, 200))
    /\ writes > 0

---------------------------------------------------------------------------
(* C10 *)

\* filters: none, by status, by search string, by both, matching nothing
SomeFilters ==
    { None,
      Some([status |-> Some(StatusPending), search |-> <<>>]),
      Some([status |-> None, search |-> <<82, 69>>]),
      Some([status |-> Some(StatusCompleted), search |-> <<112, 108, 97>>]),
      Some([status |-> Some(StatusCancelled), search |-> <<122, 122>>]) }

\* task passes filter
Passes(task, filter) ==
    \/ filter = None
    \/ /\ filter[1].status \in {None, Some(task.status)}
       /\ \/ filter[1].search = <<>>
          \/ Contains(ToLower(task.title), ToLower(filter[1].search))

\* the least n with n * limit >= total
Ceiling(total, limit) ==
    CHOOSE n \in 0..total : n * limit >= total /\ (n = 0 \/ (n - 1) * limit < total)

SomePages == 1..2

SomeLimits == {1, 2, 3, 100}

\* C10: ListTasks with a page of at least 1 and a limit between 1 and 100
\* returns, with page and limit as requested, total the number of the
\* requester's tasks that pass the filter, and total_pages the ceiling of
\* total / limit, 0 when total is 0.
C10_PaginationInfo ==
    \A u \in Users, f \in SomeFilters, page \in SomePages, limit \in SomeLimits :
        LET n == Cardinality({ id \in OwnedBy(u) : Passes(tasks[id], f) }) IN
        \A r \in ListTasksCall(f, None, page, limit, u) :
            /\ r.err = ""
            /\ r.pag[1].page = page
            /\ r.pag[1].limit = limit
            /\ r.pag[1].total = n
            /\ r.pag[1].total_pages = Ceiling(n, limit)
            /\ n = 0 => r.pag[1].total_pages = 0

\* a list call has returned while one user has three tasks and another none
C10_Witness ==
    /\ last.op = "ListTasks" /\ last.err = ""
    /\ \E u \in Users : Cardinality(OwnedBy(u)) = 3
    /\ \E u \in Users : OwnedBy(u) = {}

---------------------------------------------------------------------------
(* C11 *)

Min(a, b) == IF a < b THEN a ELSE b

Max(a, b) == IF a > b THEN a ELSE b

\* the elements of s at positions (page-1)*limit up to but excluding
\* min(page*limit, Len(s)), positions counted from 0
PageOf(s, page, limit) ==
    LET first == (page - 1) * limit
        last1 == Min(page * limit, Len(s))
    IN  [i \in 1..Max(0, last1 - first) |-> s[first + i]]

\* the filter restricting to pending tasks
PendingFilter == Some([status |-> Some(StatusPending), search |-> <<>>])

---------------------------------------------------------------------------
(* C12 *)

\* C12 as stated: two ListTasks calls with the same requester, filter, sort,
\* page and limit on the same store return the same items, so the call has
\* one possible outcome; stated for a clock whose readings all differ, so
\* that no two tasks tie on a timestamp.
C12_Original ==
    tick = 1 =>
        \A u \in Users,
           sort \in { None, Some([field |-> "status", order |-> "asc"]),
                      Some([field |-> "title", order |-> "desc"]) } :
            \A r1, r2 \in ListTasksCall(None, sort, 1, 10, u) :
                r1.items = r2.items

---------------------------------------------------------------------------
(* C13 *)

\* a <= b in the lexicographic order of strings
LexLeq(a, b) ==
    \/ /\ Len(a) <= Len(b)
       /\ \A i \in 1..Len(a) : a[i] = b[i]
    \/ \E i \in 1..Min(Len(a), Len(b)) :
          /\ a[i] < b[i]
          /\ \A j \in 1..(i - 1) : a[j] = b[j]

\* the rank of a status: pending 1, in_progress 2, completed 3, cancelled 4
StatusRank(status) ==
    CHOOSE n \in 1..4 :
        status = <<StatusPending, StatusInProgress, StatusCompleted,
                   StatusCancelled>>[n]

\* task a is <= task b on the sort field
KeyLeq(a, b, field) ==
    CASE field = "title"      -> LexLeq(a.title, b.title)
      [] field = "status"     -> StatusRank(a.status) <= StatusRank(b.status)
      [] field = "updated_at" -> a.updated_at <= b.updated_at
      [] field = "created_at" -> a.created_at <= b.created_at

SortFields == { "created_at", "updated_at", "title", "status" }

\* C13: the items ListTasks returns for a sort by one of the four fields
\* are ordered by it: of two adjacent items the earlier is <= the later
\* when ascending, >= when descending.
C13_ItemsOrdered ==
    \A u \in Users, field \in SortFields, order \in { "asc", "desc" } :
        \A r \in ListTasksCall(None, Some([field |-> field, order |-> order]),
                               1, 100, u) :
            /\ r.err = ""
            /\ Len(r.items) = Cardinality(OwnedBy(u))
            /\ \A i \in 1..(Len(r.items) - 1) :
                  IF order = "asc"
                  THEN KeyLeq(r.items[i], r.items[i + 1], field)
                  ELSE KeyLeq(r.items[i + 1], r.items[i], field)

\* a list sorted by status has been served to a user with tasks of three
\* statuses and two titles
C13_Witness ==
    /\ last.op = "ListTasks" /\ last.err = ""
    /\ { tasks[id].status : id \in OwnedBy(User1) } =
          { StatusPending, StatusInProgress, StatusCompleted }
    /\ \E id \in OwnedBy(User1) : tasks[id].title = BetaTitle

---------------------------------------------------------------------------
(* C14 *)

\* values of sort_field and sort_order: absent, valid, unknown, wrong case
QueryFields == SortFields \cup { "", "priority", "TITLE" }

QueryOrders == { "asc", "desc", "", "ASC", "up" }

\* sorts the service may be handed with an unknown field or order
UnknownSorts ==
    { [field |-> "priority", order |-> "asc"],
      [field |-> "",         order |-> "up"],
      [field |-> "TITLE",    order |-> "desc"],
      [field |-> "title",    order |-> "up"],
      [field |-> "status",   order |-> "ASC"],
      [field |-> "updated_at", order |-> ""] }

\* the sort the claim says a field and an order stand for
FallbackSort(field, order) ==
    [ field |-> IF field \in SortFields THEN field ELSE "created_at",
      order |-> IF order \in { "asc", "desc" } THEN order ELSE "desc" ]

\* C14: parseSort turns an absent or unknown sort_field into created_at and
\* an absent or unknown sort_order into desc; ListTasks with no sort, and
\* with a sort whose field or order is unknown, has the outcomes of
\* ListTasks with the sort these fall back to.
C14_SortFallback ==
    /\ \A field \in QueryFields, order \in QueryOrders :
          parseSort(field, order) = Some(FallbackSort(field, order))
    /\ \A u \in { User1, User2 } :
          /\ \A so \in UnknownSorts :
                ListTasksCall(None, Some(so), 1, 100, u)
                  = ListTasksCall(None, Some(FallbackSort(so.field, so.order)),
                                  1, 100, u)
          /\ ListTasksCall(None, None, 1, 100, u)
                = ListTasksCall(None, Some(FallbackSort("", "")), 1, 100, u)

\* a list has been served while the first user's tasks differ in creation
\* time, so that created_at descending and ascending differ
C14_Witness ==
    /\ last.op = "ListTasks" /\ last.err = ""
    /\ tick = 1
    /\ Cardinality({ tasks[id].created_at : id \in OwnedBy(User1) }) >= 3

---------------------------------------------------------------------------
(* C15 *)

UpperAlpha == <<65, 76, 80, 72, 65>>   \* ALPHA

\* filters: none, a status, a search in another case, both, a status and a
\* search no task has together, a status outside the enum
ListFilters ==
    { None,
      Some([status |-> Some(StatusPending), search |-> <<>>]),
      Some([status |-> None, search |-> UpperAlpha]),
      Some([status |-> Some(StatusCompleted), search |-> <<66, 69, 84>>]),
      Some([status |-> Some(StatusInProgress), search |-> <<98, 101, 116, 97>>]),
      Some([status |-> Some("archived"), search |-> <<>>]) }

\* the identifiers of the items of a list outcome
ItemIDs(r) == { r.items[i].id : i \in 1..Len(r.items) }

\* C15: ListTasks returns exactly the requester's tasks that satisfy every
\* predicate the filter has (equal status, title containing the search
\* whatever the case); with no filter, all of them; never more than without
\* a filter; none, with total 0, for a status outside the enum; a search
\* for ALPHA finds exactly the tasks titled Alpha.
C15_FilterKeepsMatching ==
    \A u \in Users :
        LET unfiltered == ListTasksCall(None, None, 1, 100, u)
            allIDs     == UNION { ItemIDs(all) : all \in unfiltered }
            allTotals  == { all.pag[1].total : all \in unfiltered }
        IN
        \A f \in ListFilters :
        \A r \in ListTasksCall(f, None, 1, 100, u) :
            /\ r.err = ""
            /\ ItemIDs(r) = { id \in OwnedBy(u) : Passes(tasks[id], f) }
            /\ \A i \in 1..Len(r.items) : r.items[i] = tasks[r.items[i].id]
            /\ r.pag[1].total = Len(r.items)
            /\ Len(r.items) = Cardinality(ItemIDs(r))
            /\ f = None => ItemIDs(r) = OwnedBy(u)
            /\ ItemIDs(r) \subseteq allIDs
            /\ \A n \in allTotals : r.pag[1].total <= n
            /\ (f # None /\ f[1].status = Some("archived")) =>
                  (r.items = <<>> /\ r.pag[1].total = 0)
            /\ (f # None /\ f[1] = [status |-> None, search |-> UpperAlpha]) =>
                  ItemIDs(r) = { id \in OwnedBy(u) : tasks[id].title = AlphaTitle }

\* a list has been served while the first user has tasks titled Alpha and
\* beta, one of them completed
C15_Witness ==
    /\ last.op = "ListTasks" /\ last.err = ""
    /\ \E a, b \in OwnedBy(User1) :
          /\ tasks[a].title = AlphaTitle
          /\ tasks[b].title = BetaTitle
          /\ tasks[b].status = StatusCompleted

---------------------------------------------------------------------------
(* C16 *)

\* texts of a page or limit parameter with the integer each denotes, None
\* when it denotes none: (left out), 2, +5, 100, 101, 1000, 0, -3, abc, 2.5
NumberTexts ==
    { [text |-> <<>>,               int |-> None],
      [text |-> <<50>>,             int |-> Some(2)],
      [text |-> <<43, 53>>,         int |-> Some(5)],
      [text |-> <<49, 48, 48>>,     int |-> Some(100)],
      [text |-> <<49, 48, 49>>,     int |-> Some(101)],
      [text |-> <<49, 48, 48, 48>>, int |-> Some(1000)],
      [text |-> <<48>>,             int |-> Some(0)],
      [text |-> <<45, 51>>,         int |-> Some(0 - 3)],
      [text |-> <<97, 98, 99>>,     int |-> None],
      [text |-> <<50, 46, 53>>,     int |-> None] }

PageFor(p)  == IF p.int # None /\ p.int[1] > 0 THEN p.int[1] ELSE 1
LimitFor(l) ==
    IF l.int # None /\ l.int[1] > 0 /\ l.int[1] <= 100 THEN l.int[1] ELSE 10

\* the list requests whose page is p and limit is l, and the rest left out
PagedQuery(p, l) == [NoQuery EXCEPT !.page = p.text, !.limit = l.text]

\* C16 as stated: a list request with a limit above 100 is served with
\* the page size 100.
C16_Original ==
    \A l \in { x \in NumberTexts : x.int # None /\ x.int[1] > 100 } :
        \A r \in ListTasksResponse(PagedQuery([text |-> <<>>, int |-> None], l),
                                   User1) :
            r.status = 200 /\ r.pag # None /\ r.pag[1].limit = 100

\* C16 (amended): a limit above 100, like a non-positive or non-integer
\* limit, is discarded and the default 10 is used; a limit from 1 to 100 is
\* used as it is; a non-positive or non-integer page is replaced by 1; the
\* list request is answered with 200 for each of these values, with the
\* page and the limit so obtained and at most limit tasks.
C16_PaginationDefaults ==
    /\ \A p \in NumberTexts, l \in NumberTexts :
          parsePagination(p.text, l.text) = <<PageFor(p), LimitFor(l)>>
    /\ \A pl \in { <<p, l>> \in NumberTexts \X NumberTexts :
                      p.text = <<>> \/ l.text = <<>> } :
          \A r \in ListTasksResponse(PagedQuery(pl[1], pl[2]), User1) :
              /\ r.status = 200
              /\ r.pag # None
              /\ r.pag[1].page = PageFor(pl[1])
              /\ r.pag[1].limit = LimitFor(pl[2])
              /\ Len(r.data) <= LimitFor(pl[2])

\* a list request with the limit 101 was answered with the page size 10
C16_Witness ==
    /\ last.op = "GET /tasks"
    /\ last.called = "ListTasks"
    /\ last.req.limit = <<49, 48, 49>>
    /\ last.status = 200
    /\ last.pag # None
    /\ last.pag[1].limit = 10

---------------------------------------------------------------------------
(* C17 *)

TaskRoutes ==
    { "POST /tasks", "GET /tasks/:id", "PUT /tasks/:id", "DELETE /tasks/:id",
      "GET /tasks" }

\* the header is missing or malformed, or its token fails validation
Refused(authHeader, t) ==
    \/ ExtractTokenFromHeader(authHeader).err # ""
    \/ ValidateToken(ExtractTokenFromHeader(authHeader).token, SecretKey, t).err # ""

\* C17: a request to a task route whose Authorization header is missing or
\* malformed, or whose token fails validation, is answered with 401 by the
\* middleware, reaches no method of the task service and leaves the store
\* as it was; a request that a handler answers ran with the user_id of the
\* claims of its validated token.
C17_UnauthorizedNeverReachesHandler ==
    [][ last'.op \in TaskRoutes =>
          LET h == last'.auth IN
          /\ Refused(h, now) =>
                /\ last'.status = 401
                /\ last'.message \in { "Authorization header is required",
                                       "Invalid or expired token" }
                /\ last'.called = ""
                /\ UNCHANGED <<tasks, nextID, now, deleted, writes>>
          /\ (last'.status # 401 \/ last'.called # "") =>
                /\ ~Refused(h, now)
                /\ last'.user_id = ValidateToken(h.token, SecretKey, now).user_id
                /\ last'.user_id \in Users ]_vars

\* a write request with a token signed with another key was answered 401
C17_Witness ==
    /\ last.op \in { "POST /tasks", "PUT /tasks/:id", "DELETE /tasks/:id" }
    /\ last.auth.scheme = "Bearer"
    /\ last.auth.token.form = "jwt"
    /\ last.auth.token.key # SecretKey
    /\ last.status = 401
    /\ writes > 0

---------------------------------------------------------------------------
(* C18 *)

\* emails and passwords of login requests: the seeded and an unknown
\* email, a seeded email in another case, texts that are no email, and
\* the seeded password, wrong ones, a short one, blank ones
LoginEmails ==
    { Email1, Email2, Email3, UnknownEmail, UpperEmail1, BadEmail,
      <<>>, <<32, 32>> }

LoginPasswords ==
    { Password123, WrongPassword, ShortPassword, <<>>, <<32, 32, 32>>,
      Rep(49, 7), Rep(49, 8) }

LoginRequests ==
    { [email |-> e, password |-> pw] : e \in LoginEmails, pw \in LoginPasswords }

\* the password of the request is not the stored one of a seeded user
Mismatch(req) ==
    req.email \notin DOMAIN users \/ users[req.email].password # req.password

---------------------------------------------------------------------------
(* C19 *)

---------------------------------------------------------------------------
(* C20 *)

ValidBody   == [ok |-> TRUE, req |-> [ title  |-> Some(NewTitle),
                                       status |-> Some(StatusCancelled) ]]
InvalidBody == [ok |-> TRUE, req |-> [ title  |-> Some(NewTitle),
                                       status |-> Some("invalid") ]]

\* C20 as stated: on the get, update and delete routes a task of another
\* user yields 403 and an absent task 404, and a request that fails
\* validation yields 400, on the create route too.
C20_Original ==
    \A u \in Users, id \in KnownIDs :
        LET get    == GetTaskResponse(IDText(id), u)
            update == UpdateTaskResponse(IDText(id), ValidBody, u, Now(1))
            delete == DeleteTaskResponse(IDText(id), u)
        IN  /\ (id \in DOMAIN tasks /\ tasks[id].user_id # u) =>
                  get.status = 403 /\ update.status = 403 /\ delete.status = 403
            /\ id \notin DOMAIN tasks =>
                  get.status = 404 /\ update.status = 404 /\ delete.status = 404
            /\ (id \in DOMAIN tasks /\ tasks[id].user_id = u) =>
                  UpdateTaskResponse(IDText(id), InvalidBody, u, Now(1)).status = 400
            /\ CreateTaskResponse([ok |-> TRUE, req |-> [title |-> <<>>]], u,
                                  NewUUID, Now(1), Now(2)).status = 400

---------------------------------------------------------------------------
(* C21 *)

---------------------------------------------------------------------------
(* C24 *)

\* C24: a GetTaskByID or ListTasks call, successful or failing, leaves the
\* map of tasks as it was; a successful CreateTask adds one task and
\* changes none of those that were there; a successful DeleteTask removes
\* one task and changes none of the others.
C24_FrameOfReadsAndWrites ==
    [][ /\ last'.op \in {"GetTaskByID", "ListTasks"} => tasks' = tasks
        /\ (last'.op = "CreateTask" /\ last'.err = "") =>
              /\ \A id \in DOMAIN tasks :
                    id \in DOMAIN tasks' /\ tasks'[id] = tasks[id]
              /\ Cardinality(DOMAIN tasks') = Cardinality(DOMAIN tasks) + 1
        /\ (last'.op = "DeleteTask" /\ last'.err = "") =>
              /\ DOMAIN tasks' \subseteq DOMAIN tasks
              /\ Cardinality(DOMAIN tasks') = Cardinality(DOMAIN tasks) - 1
              /\ \A id \in DOMAIN tasks' : tasks'[id] = tasks[id]
      ]_vars

\* a ListTasks call failed after the store had been written to
C24_Witness ==
    /\ last.op = "ListTasks"
    /\ last.err # ""
    /\ writes > 0
    /\ deleted # {}

---------------------------------------------------------------------------
(* C25 *)

\* texts a page or limit parameter may carry: those of NumberTexts, the
\* largest int, the numbers next to it and beyond, 00, -0, 1, signs alone,
\* 1e2, a number after a space, an Arabic-Indic digit
QueryTexts ==
    { x.text : x \in NumberTexts }
    \cup { Itoa(MaxInt), Itoa(MaxInt - 1), Itoa(MaxInt + 1),
           <<45>> \o Itoa(MaxInt + 1), <<45>> \o Itoa(MaxInt + 2),
           Rep(57, 12), <<48, 48>>, <<45, 48>>, <<49>>, <<43>>, <<45>>,
           <<49, 101, 50>>, <<32, 53>>, <<1635>> }

\* C25: whatever the texts of page and limit, the list handler calls
\* ListTasks with a page of at least 1 and a limit from 1 to 100, and no
\* list request ends in a division by zero.
C25_PageAndLimitInRange ==
    /\ \A pageStr \in QueryTexts, limitStr \in QueryTexts :
          LET pl == parsePagination(pageStr, limitStr) IN
          /\ pl[1] \in 1..MaxInt
          /\ pl[2] \in 1..100
    /\ \A limitStr \in QueryTexts :
          \A r \in ListTasksResponse([NoQuery EXCEPT !.limit = limitStr], User2) :
              /\ r.err # "panic: integer divide by zero"
              /\ r.pag # None /\ r.pag[1].limit \in 1..100 /\ r.pag[1].page = 1
    /\ (last.op = "GET /tasks" /\ last.called = "ListTasks") =>
          last.err # "panic: integer divide by zero"

\* a list request with the limit 0 was answered with the page size 10
C25_Witness ==
    /\ last.op = "GET /tasks"
    /\ last.called = "ListTasks"
    /\ last.req.limit = <<48>>
    /\ last.status = 200
    /\ last.pag # None
    /\ last.pag[1].limit = 10

---------------------------------------------------------------------------
(* C27 *)

\* pages far beyond the last one: the largest int, and the page whose
\* window start with the limit 100 is a multiple of 2^IntBits
FarPages == { Itoa(MaxInt), Itoa(2^(IntBits - 2) + 1) }

\* C27 as stated: for every page of at least 1 that parsePagination
\* accepts and every limit from 1 to 100, a list request whose page lies
\* beyond the last one is answered normally, with no items and with the
\* page and limit of the request in the metadata.
C27_Original ==
    \A pageStr \in FarPages, limitStr \in { <<>>, <<50>>, <<49, 48, 48>> } :
        LET pl == parsePagination(pageStr, limitStr) IN
        \A r \in ListTasksResponse([NoQuery EXCEPT !.page = pageStr,
                                                    !.limit = limitStr], User1) :
            /\ pl[1] = DecimalValue(pageStr)
            /\ r.status = 200
            /\ r.data = <<>>
            /\ r.pag # None
            /\ r.pag[1].page = pl[1]
            /\ r.pag[1].limit = pl[2]

---------------------------------------------------------------------------
(* C26 *)

\* C26: every task in the store has one of the four statuses, a title that
\* is not empty after trimming and has at most 200 characters, the key it
\* is stored under as its id, and a created_at that is not later than its
\* updated_at.
C26_StoredTasksWellFormed ==
    \A id \in DOMAIN tasks :
        /\ tasks[id].status \in { StatusPending, StatusInProgress,
                                  StatusCompleted, StatusCancelled }
        /\ TrimSpace(tasks[id].title) # <<>>
        /\ Len(tasks[id].title) <= 200
        /\ Len(TrimSpace(tasks[id].title)) <= 200
        /\ tasks[id].id = id
        /\ tasks[id].created_at <= tasks[id].updated_at
        /\ tasks[id].user_id \in Users

\* a title of 200 characters was stored by a create or an update
C26_Witness ==
    /\ last.op \in {"CreateTask", "UpdateTask"}
    /\ last.err = ""
    /\ \E id \in DOMAIN tasks : Len(tasks[id].title) = 200

---------------------------------------------------------------------------
(* C28 *)

\* C28 as stated: for one store, requester, filter, sort and limit, the
\* pages 1 to total_pages, each asked for in a call of its own, hold every
\* matching task on exactly one page, also when tasks tie on the sort key;
\* stated for the limit 1, a sort by status and a clock whose readings all
\* differ.
C28_Original ==
    tick = 1 =>
        \A u \in { User1, User2 } :
            LET sort     == Some([field |-> "status", order |-> "asc"])
                matching == { id \in DOMAIN tasks : tasks[id].user_id = u }
                pages    == totalPages(Cardinality(matching), 1)
                Items(p) == { r.items : r \in ListTasksCall(None, sort, p, 1, u) }
            IN  \A pick \in [1..pages -> UNION { Items(p) : p \in 1..pages }] :
                    (\A p \in 1..pages : pick[p] \in Items(p)) =>
                        \A id \in matching :
                            Cardinality({ p \in 1..pages :
                                            \E i \in 1..Len(pick[p]) :
                                                pick[p][i].id = id }) = 1

---------------------------------------------------------------------------
(* C29 *)

\* list requests of the user whose view is compared
ViewSorts == { None, Some([field |-> "status", order |-> "asc"]) }

\* C29 as stated: a call made with B as requester changes the result of no
\* GetTaskByID and of no ListTasks call made with another user A as
\* requester.
C29_Original ==
    [][ (last'.op \in TaskRoutes /\ last'.called # "" /\ tasks' # tasks) =>
          \A A \in Users \ {last'.user_id} :
              /\ \A id \in 1..nextID' :
                    GetTaskByIDCall(id, A)' = GetTaskByIDCall(id, A)
              /\ \A sort \in ViewSorts :
                    ListTasksCall(None, sort, 1, 100, A)'
                      = ListTasksCall(None, sort, 1, 100, A)
      ]_vars

\* C29 (amended): a call made with B as requester changes the result of no
\* ListTasks call made with another user A as requester, and of no
\* GetTaskByID call of A on a task that A owns; a GetTaskByID call of A on
\* any other identifier returns no task before and after, with the error
\* 'access denied' while a task of another user has that identifier and
\* 'task not found' otherwise.
C29_NonInterference ==
    [][ (last'.op \in TaskRoutes /\ last'.called # "" /\ tasks' # tasks) =>
          \A A \in Users \ {last'.user_id} :
              /\ \A id \in 1..nextID' :
                    LET before == GetTaskByIDCall(id, A)
                        after  == GetTaskByIDCall(id, A)'
                    IN  /\ (before.err = "" \/ after.err = "") => after = before
                        /\ before.err # "" =>
                              /\ before.task = None /\ after.task = None
                              /\ after.err = IF id \in DOMAIN tasks'
                                             THEN "access denied"
                                             ELSE "task not found"
              /\ \A sort \in ViewSorts, w \in { <<1, 100>>, <<2, 1>> } :
                    ListTasksCall(None, sort, w[1], w[2], A)'
                      = ListTasksCall(None, sort, w[1], w[2], A)
              /\ ListTasksCall(PendingFilter, None, 1, 100, A)'
                   = ListTasksCall(PendingFilter, None, 1, 100, A)
      ]_vars

\* the second user wrote to the store through a route while the first
\* user owned tasks
C29_Witness ==
    /\ last.op \in { "POST /tasks", "PUT /tasks/:id", "DELETE /tasks/:id" }
    /\ last.status \in {200, 201}
    /\ last.user_id = User2
    /\ writes > 0
    /\ \E id \in DOMAIN tasks : tasks[id].user_id = User1

---------------------------------------------------------------------------
(* C22 *)

\* C22: when two requests run concurrently, in no state is one goroutine
\* inside a write of the task map while another is inside a read or a
\* write of it.
C22_Original ==
    \A g \in Goroutines : \A h \in Goroutines \ {g} :
        ~(Writing(calls[g]) /\ (Reading(calls[h]) \/ Writing(calls[h])))

---------------------------------------------------------------------------
(* C23 *)

\* C23: when two UpdateTask calls of the owner on one task, each with a
\* title and a status, have returned without error and the task is in
\* the store, its title and status are those of one of the two patches.
C23_Original ==
    LET c1 == calls["g1"]
        c2 == calls["g2"]
    IN  ( /\ c1.op = "UpdateTask" /\ c1.pc = "returned" /\ c1.err = ""
          /\ c2.op = "UpdateTask" /\ c2.pc = "returned" /\ c2.err = ""
          /\ c1.id = c2.id
          /\ c1.id \in DOMAIN tasks
          /\ c1.req.title # None /\ c1.req.status # None
          /\ c2.req.title # None /\ c2.req.status # None )
        => <<tasks[c1.id].title, tasks[c1.id].status>> \in
             { <<c1.req.title[1], c1.req.status[1]>>,
               <<c2.req.title[1], c2.req.status[1]>> }

---------------------------------------------------------------------------
(* C30 *)

\* C30: an UpdateTask that returns without error has made none of its
\* assignments to a task that was removed from the store by then.
C30_Original ==
    \A g \in Goroutines :
        (calls[g].op = "UpdateTask" /\ calls[g].pc = "returned"
           /\ calls[g].err = "")
        => ~calls[g].stale

====
